---- MODULE Spec2Model ----
(***************************************************************************)
(* Model of yu1ec/go-shorten: the record store (internal/storage), the     *)
(* session manager (internal/session) and the HTTP handlers                *)
(* (internal/handler).                                                     *)
(*                                                                         *)
(* Spec        : the record store, every public operation one atomic step  *)
(*               (each runs wholly under URLStorage.mutex).                *)
(* SpecRestart : the record store with restarts of the process.            *)
(* SpecBackup  : the record store with its backup scheduler.               *)
(* SpecSession : the session manager, one caller at a time.                *)
(* SpecCreates : the record store, every goroutine calling CreateURL once  *)
(*               with a code of its own, statement by statement.           *)
(* SpecConc    : the record store called by concurrent goroutines,         *)
(*               statement by statement.                                   *)
(* SpecSched   : the same with the backup scheduler beside a writer and a  *)
(*               reader.                                                   *)
(* SpecSessConc: the session manager called by concurrent goroutines and   *)
(*               the reaper, statement by statement.                       *)
(* SpecHTTP    : the handlers of the shorten and redirect routes over the  *)
(*               record store and the legacy record file.                  *)
(* SpecBackupFair: the record store with a scheduler that keeps firing.    *)
(* SpecKeys    : the record store with restarts, at one instant.           *)
(* SpecSessRace: the session manager called by concurrent goroutines,      *)
(*               without Destroy.                                          *)
(* SpecReaper  : the session manager with a reaper that keeps running      *)
(*               after the last request.                                   *)
(* SpecAdmin   : the administration (logins, logouts, protected routes)    *)
(*               over the session manager and the record store.            *)
(* SpecTarget  : creations and updates on the store itself, through the    *)
(*               API and through the forms of the administration.          *)
(***************************************************************************)
EXTENDS Naturals, Integers, Sequences, FiniteSets, TLC

VARIABLES
    cache,        \* URLStorage.cache: short code -> URLRecord
    isDirty,      \* URLStorage.isDirty
    lastBackup,   \* URLStorage.lastBackup
    file,         \* content of data/shorten_records.json
    backups,      \* data/backups: timestamp in the file name -> content
    now,          \* the wall clock read by time.Now()
    tickTime,     \* the instant the backup ticker last fired (or was started)
    alive,        \* NewURLStorage returned a store (FALSE: it returned an error)
    last,         \* the last completed call: operation, argument, error
    ioFailed,     \* history: a mutation of this store instance returned an I/O error
    faults,       \* history: the number of I/O failures so far
    quiet,        \* history: the ticker's last firing (if any) ended without an
                  \* error and no mutation took effect since
    sessions,     \* Manager.sessions: session id -> Session
    nextID,       \* the number of the next id generateSessionID returns
    slast,        \* the last completed call of the session manager
    pc,           \* concurrent callers: where each goroutine is in its call
    loc,          \* concurrent callers: the arguments, locals and result of the call
    writer,       \* URLStorage.mutex: the goroutine holding it exclusively, or None
    readers,      \* URLStorage.mutex: the goroutines holding it shared
    acache,       \* history: the cache after the mutations so far, applied one
                  \* after another in the order in which they took effect
    recordFile,   \* the records ShortenHandler appended to data/shorten_records.txt
    resp,         \* the last HTTP response written by a handler
    spc,          \* callers of the session manager: where each goroutine is
    sloc,         \* callers of the session manager: arguments, locals, result
    swriter,      \* Manager.mutex: the goroutine holding it exclusively, or None
    sreaders,     \* Manager.mutex: the goroutines holding it shared
    objects       \* the Session values allocated so far, by id: a goroutine
                  \* keeps its pointer after the id has left Manager.sessions

storeVars == <<cache, isDirty, lastBackup, file, backups, tickTime, alive,
               last, ioFailed, faults, quiet>>
sessVars == <<sessions, nextID, slast>>
concVars == <<pc, loc, writer, readers, acache>>
httpVars == <<recordFile, resp>>
sconcVars == <<spc, sloc, swriter, sreaders, objects>>
vars == <<storeVars, now, sessVars, concVars, httpVars, sconcVars>>

----------------------------------------------------------------------------
(* Bounds of the model *)

MaxTime == 3
MaxFaults == 1

(* A Go string that is not valid UTF-8 (for instance the one byte 0xFF, which *)
(* r.FormValue("short_code") yields for short_code=%FF), and the string       *)
(* holding the one rune U+FFFD.                                               *)
BadUTF8 == "<0xFF>"
Replacement == "<U+FFFD>"

Codes == {"a", BadUTF8}

----------------------------------------------------------------------------
(* Go maps *)

EmptyMap == [k \in {} |-> k]
Put(m, k, v) == [x \in (DOMAIN m) \cup {k} |-> IF x = k THEN v ELSE m[x]]
Del(m, k) == [x \in (DOMAIN m) \ {k} |-> m[x]]

(* storage.URLRecord *)
URLRecord(c, t, r, ct) ==
    [ShortCode |-> c, TargetURL |-> t, Remark |-> r, CreateTime |-> ct]

NoRecord == URLRecord("", "", "", 0)

(* The records a caller can pass to CreateURL and UpdateURL: the caller     *)
(* sets any CreateTime.                                                    *)
Payloads == {<<"u1", "">>, <<"u2", "r">>}
Requests ==
    {URLRecord(c, p[1], p[2], ct) : c \in Codes, p \in Payloads, ct \in {0, MaxTime}}

(* The smaller sets of calls of the specifications with restarts and with  *)
(* backups.                                                                *)
RestartRequests ==
    {URLRecord("a", p[1], p[2], MaxTime) : p \in Payloads}
    \cup {URLRecord(BadUTF8, "u1", "", MaxTime)}
BackupRequests == {URLRecord("a", p[1], p[2], MaxTime) : p \in Payloads}

----------------------------------------------------------------------------
(* encoding/json as the store uses it *)

(* json.Encoder writes a string coerced to valid UTF-8: every invalid byte *)
(* becomes the replacement rune U+FFFD.                                    *)
ToValidUTF8(s) == IF s = BadUTF8 THEN Replacement ELSE s

(* time.Time.MarshalJSON writes the instant in RFC 3339 with nanoseconds;  *)
(* UnmarshalJSON parses it back to the same instant.                       *)
EncodeRecord(rec) ==
    [short_code  |-> ToValidUTF8(rec.ShortCode),
     target_url  |-> ToValidUTF8(rec.TargetURL),
     remark      |-> ToValidUTF8(rec.Remark),
     create_time |-> [rfc3339 |-> rec.CreateTime]]

DecodeRecord(obj) ==
    URLRecord(obj.short_code, obj.target_url, obj.remark, obj.create_time.rfc3339)

(* The contents a file can have, besides  [kind |-> "absent"]  (no such   *)
(* file).                                                                  *)
Truncated == [kind |-> "truncated", recs |-> <<>>]   \* zero bytes (after os.Create)
Partial   == [kind |-> "partial",   recs |-> <<>>]   \* a write that stopped part-way
JSONNull  == [kind |-> "null",      recs |-> <<>>]   \* the document  null
JSONArray(objs) == [kind |-> "array", recs |-> objs]

(* The orders in which  for _, record := range s.cache  can visit the map. *)
RangeOrders(m) ==
    {o \in [1..Cardinality(DOMAIN m) -> DOMAIN m] :
        \A i, j \in 1..Cardinality(DOMAIN m) : o[i] = o[j] => i = j}

(* saveToFile: the records slice stays nil for an empty cache (encoded as   *)
(* null); otherwise it holds a copy of every record in range order.         *)
EncodeCache(m) ==
    IF DOMAIN m = {} THEN {JSONNull}
    ELSE {JSONArray([i \in 1..Cardinality(DOMAIN m) |-> EncodeRecord(m[o[i]])]) :
            o \in RangeOrders(m)}

(* saveToFile: os.Create fails and leaves the file as it was; or it         *)
(* truncates the file and Encode writes the document, wholly or (on a write *)
(* error) in part.                                                          *)
saveToFile(m, f) ==
    {[file |-> f, err |-> "IOFailure"]}
    \cup {[file |-> Truncated, err |-> "IOFailure"], [file |-> Partial, err |-> "IOFailure"]}
    \cup {[file |-> d, err |-> "nil"] : d \in EncodeCache(m)}

RECURSIVE LoadRecords(_, _)
(* loadFromFile that stores the address of the loop variable instead of a  *)
(* copy of it: every code of the file leads to the last record decoded.    *)
LoadRecordsLoopVar(objs, m) ==
    IF objs = <<>> THEN m
    ELSE [k \in (DOMAIN m) \cup {DecodeRecord(objs[i]).ShortCode : i \in 1..Len(objs)} |->
            IF k \in {DecodeRecord(objs[i]).ShortCode : i \in 1..Len(objs)}
            THEN DecodeRecord(objs[Len(objs)])
            ELSE m[k]]

(* loadFromFile, lines 87-91: each decoded record is stored under its own   *)
(* ShortCode, a later one replacing an earlier one with the same code.      *)
LoadRecords(objs, m) ==
    IF objs = <<>> THEN m
    ELSE LoadRecords(Tail(objs),
                     Put(m, DecodeRecord(Head(objs)).ShortCode, DecodeRecord(Head(objs))))

(* loadFromFile: a missing file is an empty store; a document that does not *)
(* decode is an error.                                                       *)
loadFromFile(f) ==
    CASE f.kind = "absent" -> [cache |-> EmptyMap, err |-> "nil"]
      [] f.kind \in {"truncated", "partial"} -> [cache |-> EmptyMap, err |-> "IOFailure"]
      [] f.kind = "null" -> [cache |-> EmptyMap, err |-> "nil"]
      [] f.kind = "array" -> [cache |-> LoadRecords(f.recs, EmptyMap), err |-> "nil"]

----------------------------------------------------------------------------
(* The result of a call *)

Mutations == {"CreateURL", "UpdateURL", "DeleteURL"}

Result(op, code, err) == [op |-> op, code |-> code, err |-> err]

(* An HTTP response: the status, and the body or the Location header. *)
Response(status, body) == [status |-> status, body |-> body]

(* The outcomes of saveToFile that the fault budget allows. *)
Saves(m, f) == {o \in saveToFile(m, f) : o.err = "nil" \/ faults < MaxFaults}

(* The result of a call of the session manager: the error, the id of the   *)
(* session returned, and whether a cookie was set on the response.         *)
SResult(op, cookie, err, id, setCookie) ==
    [op |-> op, cookie |-> cookie, err |-> err, id |-> id, setCookie |-> setCookie]

(* r.Cookie(m.cookieName): no such cookie, or its value. *)
NoCookie == [present |-> FALSE, value |-> ""]
Cookie(v) == [present |-> TRUE, value |-> v]

(* The goroutines: the callers of the store and the backup scheduler. *)
Clients == {"p1", "p2", "p3"}
Scheduler == "bk"
Procs == Clients \cup {Scheduler}
None == "none"

(* The goroutines that call the session manager (the handlers of two      *)
(* requests) and the goroutine of StartGCTimer.                            *)
Reaper == "gc"
SessionProcs == {"s1", "s2"} \cup {Reaper}

(* The locals of a goroutine that is not in a call of the session manager. *)
IdleSLoc ==
    [op |-> "none", cookie |-> NoCookie, id |-> "", exists |-> FALSE,
     visited |-> {}, err |-> "none", setCookie |-> FALSE]

(* The locals of a goroutine that is in no call. *)
IdleLoc ==
    [op |-> "none", rec |-> NoRecord, err |-> "none", exp |-> "none",
     records |-> <<>>, visited |-> {}, out |-> {}, expOut |-> {}]

Init ==
    /\ file = [kind |-> "absent", recs |-> <<>>]
    /\ cache = loadFromFile(file).cache
    /\ isDirty = FALSE
    /\ now = 0
    /\ lastBackup = now
    /\ backups = EmptyMap
    /\ tickTime = now
    /\ alive = TRUE
    /\ last = Result("NewURLStorage", "", "nil")
    /\ ioFailed = FALSE
    /\ faults = 0
    /\ quiet = TRUE
    /\ sessions = EmptyMap
    /\ nextID = 1
    /\ slast = SResult("NewManager", NoCookie, "nil", "", FALSE)
    /\ pc = [p \in Procs |-> IF p = Scheduler THEN "wait" ELSE "idle"]
    /\ loc = [p \in Procs |-> IdleLoc]
    /\ writer = None
    /\ readers = {}
    /\ acache = cache
    /\ recordFile = <<>>
    /\ resp = Response(0, <<>>)
    /\ spc = [p \in SessionProcs |-> "idle"]
    /\ sloc = [p \in SessionProcs |-> IdleSLoc]
    /\ swriter = None
    /\ sreaders = {}
    /\ objects = EmptyMap

(* Time passes. *)
Tick ==
    /\ now < MaxTime
    /\ now' = now + 1
    /\ UNCHANGED <<storeVars, sessVars, httpVars, sconcVars, concVars>>

(* The tail of a mutation that marks the store dirty only once the file    *)
(* has been rewritten.                                                     *)
CommitDirtyOnSuccess(op, code) ==
    /\ quiet' = FALSE
    /\ \E o \in Saves(cache', file) :
         /\ file' = o.file
         /\ isDirty' = (isDirty \/ o.err = "nil")
         /\ last' = Result(op, code, o.err)
         /\ ioFailed' = (ioFailed \/ o.err # "nil")
         /\ faults' = IF o.err # "nil" THEN faults + 1 ELSE faults

(* The common tail of the three mutations: mark dirty, rewrite the file,   *)
(* return saveToFile's error.                                              *)
Commit(op, code) ==
    /\ isDirty' = TRUE
    /\ quiet' = FALSE
    /\ \E o \in Saves(cache', file) :
         /\ file' = o.file
         /\ last' = Result(op, code, o.err)
         /\ ioFailed' = (ioFailed \/ o.err # "nil")
         /\ faults' = IF o.err # "nil" THEN faults + 1 ELSE faults

(* A mutation that returns before it changes anything. *)
Reject(op, code, err) ==
    /\ last' = Result(op, code, err)
    /\ UNCHANGED <<cache, isDirty, file, ioFailed, faults, quiet>>

(* CreateURL without the check of line 198: it overwrites. *)
CreateURLNoCheck(record) ==
    /\ alive
    /\ cache' = Put(cache, record.ShortCode, [record EXCEPT !.CreateTime = now])
    /\ Commit("CreateURL", record.ShortCode)
    /\ UNCHANGED <<lastBackup, backups, now, tickTime, alive, sessVars, concVars, sconcVars>>

(* CreateURL, lines 194-208 *)
CreateURL(record) ==
    /\ alive
    /\ IF record.ShortCode \in DOMAIN cache
       THEN Reject("CreateURL", record.ShortCode, "Conflict")
       ELSE /\ cache' = Put(cache, record.ShortCode, [record EXCEPT !.CreateTime = now])
            /\ Commit("CreateURL", record.ShortCode)
    /\ UNCHANGED <<lastBackup, backups, now, tickTime, alive, sessVars, concVars, sconcVars>>

(* UpdateURL that stores the record before it looks the code up. *)
UpdateURLUpsert(record) ==
    /\ alive
    /\ IF record.ShortCode \notin DOMAIN cache
       THEN /\ cache' = Put(cache, record.ShortCode, record)
            /\ last' = Result("UpdateURL", record.ShortCode, "NotFound")
            /\ UNCHANGED <<isDirty, file, ioFailed, faults, quiet>>
       ELSE /\ cache' = Put(cache, record.ShortCode,
                            [record EXCEPT !.CreateTime = cache[record.ShortCode].CreateTime])
            /\ Commit("UpdateURL", record.ShortCode)
    /\ UNCHANGED <<lastBackup, backups, now, tickTime, alive, sessVars, sconcVars, concVars>>

(* UpdateURL without line 220: it keeps the caller's CreateTime. *)
UpdateURLCallerTime(record) ==
    /\ alive
    /\ IF record.ShortCode \notin DOMAIN cache
       THEN Reject("UpdateURL", record.ShortCode, "NotFound")
       ELSE /\ cache' = Put(cache, record.ShortCode, record)
            /\ Commit("UpdateURL", record.ShortCode)
    /\ UNCHANGED <<lastBackup, backups, now, tickTime, alive, sessVars, sconcVars, concVars>>

(* UpdateURL, lines 211-226 *)
UpdateURL(record) ==
    /\ alive
    /\ IF record.ShortCode \notin DOMAIN cache
       THEN Reject("UpdateURL", record.ShortCode, "NotFound")
       ELSE /\ cache' = Put(cache, record.ShortCode,
                            [record EXCEPT !.CreateTime = cache[record.ShortCode].CreateTime])
            /\ Commit("UpdateURL", record.ShortCode)
    /\ UNCHANGED <<lastBackup, backups, now, tickTime, alive, sessVars, sconcVars, concVars>>

(* DeleteURL without line 237: the record stays in the cache. *)
DeleteURLKeep(shortCode) ==
    /\ alive
    /\ IF shortCode \notin DOMAIN cache
       THEN Reject("DeleteURL", shortCode, "NotFound")
       ELSE /\ cache' = cache
            /\ Commit("DeleteURL", shortCode)
    /\ UNCHANGED <<lastBackup, backups, now, tickTime, alive, sessVars, sconcVars, concVars>>

(* DeleteURL, lines 229-241 *)
DeleteURL(shortCode) ==
    /\ alive
    /\ IF shortCode \notin DOMAIN cache
       THEN Reject("DeleteURL", shortCode, "NotFound")
       ELSE /\ cache' = Del(cache, shortCode)
            /\ Commit("DeleteURL", shortCode)
    /\ UNCHANGED <<lastBackup, backups, now, tickTime, alive, sessVars, sconcVars, concVars>>

(* GetURLByCode, lines 180-191: the error and the copy it returns. *)
GetURLByCodeErr(code) == IF code \in DOMAIN cache THEN "nil" ELSE "NotFound"
GetURLByCodeVal(code) == IF code \in DOMAIN cache THEN cache[code] ELSE NoRecord

GetURLByCode(code) ==
    /\ alive
    /\ last' = Result("GetURLByCode", code, GetURLByCodeErr(code))
    /\ UNCHANGED <<cache, isDirty, lastBackup, file, backups, now, tickTime, alive,
                   ioFailed, faults, quiet, sessVars, httpVars, sconcVars, concVars>>

(* GetAllURLs, lines 167-177: a copy of every record. *)
GetAllURLs ==
    /\ alive
    /\ last' = Result("GetAllURLs", "", "nil")
    /\ UNCHANGED <<cache, isDirty, lastBackup, file, backups, now, tickTime, alive,
                   ioFailed, faults, quiet, sessVars, httpVars, sconcVars, concVars>>

(* The interval of the backup ticker, in clock units. *)
BackupInterval == 1

(* time.Now().Format("20060102_150405"): the instant to the second. *)
Stamp(t) == t

(* createBackup without line 162: the flag stays set after the copy. *)
createBackupKeepDirty(f, bs, d, lb, t) ==
    IF ~d
    THEN {[backups |-> bs, isDirty |-> d, lastBackup |-> lb, err |-> "nil", fault |-> FALSE]}
    ELSE IF f.kind = "absent"
    THEN {[backups |-> bs, isDirty |-> d, lastBackup |-> lb, err |-> "IOFailure", fault |-> FALSE]}
    ELSE {[backups |-> bs, isDirty |-> d, lastBackup |-> lb, err |-> "IOFailure", fault |-> TRUE],
          [backups |-> Put(bs, Stamp(t), f), isDirty |-> d, lastBackup |-> t,
           err |-> "nil", fault |-> FALSE]}

(* createBackup, lines 133-164, called with the dirty flag d at instant t:  *)
(* the outcomes of the dirty check, of opening the records file, of         *)
(* creating the backup file and of copying.                                 *)
createBackup(f, bs, d, lb, t) ==
    IF ~d
    THEN {[backups |-> bs, isDirty |-> d, lastBackup |-> lb, err |-> "nil", fault |-> FALSE]}
    ELSE IF f.kind = "absent"
    THEN {[backups |-> bs, isDirty |-> d, lastBackup |-> lb, err |-> "IOFailure", fault |-> FALSE]}
    ELSE {[backups |-> bs, isDirty |-> d, lastBackup |-> lb, err |-> "IOFailure", fault |-> TRUE],
          [backups |-> Put(bs, Stamp(t), Truncated), isDirty |-> d, lastBackup |-> lb,
           err |-> "IOFailure", fault |-> TRUE],
          [backups |-> Put(bs, Stamp(t), f), isDirty |-> FALSE, lastBackup |-> t,
           err |-> "nil", fault |-> FALSE]}

(* One firing of the ticker in startBackupScheduler, lines 119-128, with    *)
(* the createBackup call it makes when the flag is set.                     *)
BackupTick ==
    /\ alive
    /\ now >= tickTime + BackupInterval
    /\ tickTime' = now
    /\ IF ~isDirty
       THEN /\ last' = Result("BackupTick", "", "clean")
            /\ quiet' = TRUE
            /\ UNCHANGED <<backups, lastBackup, isDirty, faults>>
       ELSE \E o \in {x \in createBackup(file, backups, isDirty, lastBackup, now) :
                        ~x.fault \/ faults < MaxFaults} :
            /\ backups' = o.backups
            /\ isDirty' = o.isDirty
            /\ lastBackup' = o.lastBackup
            /\ last' = Result("BackupTick", "", o.err)
            /\ quiet' = (o.err = "nil")
            /\ faults' = IF o.fault THEN faults + 1 ELSE faults
    /\ UNCHANGED <<cache, file, now, alive, ioFailed, sessVars, httpVars, sconcVars, concVars>>

(* The process ends and is started again: NewURLStorage, lines 39-68, over  *)
(* the files the old process left.                                          *)
Restart ==
    /\ alive' = (loadFromFile(file).err = "nil")
    /\ cache' = loadFromFile(file).cache
    /\ isDirty' = FALSE
    /\ lastBackup' = now
    /\ tickTime' = now
    /\ last' = Result("NewURLStorage", "", loadFromFile(file).err)
    /\ ioFailed' = FALSE
    /\ quiet' = TRUE
    /\ UNCHANGED <<file, backups, now, faults, sessVars, httpVars, sconcVars, concVars>>

(* The record store, called by one caller after another. *)
Next ==
    \/ Tick
    \/ \E record \in Requests : CreateURL(record) /\ UNCHANGED httpVars
    \/ \E record \in Requests : UpdateURL(record) /\ UNCHANGED httpVars
    \/ \E code \in Codes : DeleteURL(code) /\ UNCHANGED httpVars
    \/ \E code \in Codes : GetURLByCode(code)
    \/ GetAllURLs

Spec == Init /\ [][Next]_vars

(* The record store with restarts of the process. *)
NextRestart ==
    \/ Tick
    \/ \E record \in RestartRequests : CreateURL(record) /\ UNCHANGED httpVars
    \/ \E record \in RestartRequests : UpdateURL(record) /\ UNCHANGED httpVars
    \/ \E code \in Codes : DeleteURL(code) /\ UNCHANGED httpVars
    \/ Restart

SpecRestart == Init /\ [][NextRestart]_vars

(* The record store with restarts, at one instant: two codes, one of them  *)
(* rewritten by the encoding, created, updated and deleted, and the cache  *)
(* loaded again from the file.                                             *)
NextKeys ==
    \/ \E record \in RestartRequests : CreateURL(record) /\ UNCHANGED httpVars
    \/ \E record \in RestartRequests : UpdateURL(record) /\ UNCHANGED httpVars
    \/ DeleteURL("a") /\ UNCHANGED httpVars
    \/ Restart

SpecKeys == Init /\ [][NextKeys]_vars

(* The record store with its backup scheduler. *)
NextBackup ==
    \/ Tick
    \/ \E record \in BackupRequests : CreateURL(record) /\ UNCHANGED httpVars
    \/ \E record \in BackupRequests : UpdateURL(record) /\ UNCHANGED httpVars
    \/ DeleteURL("a") /\ UNCHANGED httpVars
    \/ BackupTick

SpecBackup == Init /\ [][NextBackup]_vars

(* The record store with its backup scheduler running for ever: the ticker *)
(* fires every BackupInterval, so the clock does not pass an instant at    *)
(* which a firing is due before the scheduler has handled it. The model's  *)
(* clock stops at MaxTime, so a mutation is called only while the clock    *)
(* leaves room for the firings that follow it, one for each file operation *)
(* that can still fail and one more.                                       *)
RoomForBackup == now + (MaxFaults - faults) < MaxTime

TimePasses == now < tickTime + BackupInterval /\ Tick

NextBackupFair ==
    \/ TimePasses
    \/ \E record \in BackupRequests :
         RoomForBackup /\ CreateURL(record) /\ UNCHANGED httpVars
    \/ \E record \in BackupRequests :
         RoomForBackup /\ UpdateURL(record) /\ UNCHANGED httpVars
    \/ RoomForBackup /\ DeleteURL("a") /\ UNCHANGED httpVars
    \/ BackupTick

SpecBackupFair ==
    Init /\ [][NextBackupFair]_vars /\ WF_vars(TimePasses) /\ WF_vars(BackupTick)

----------------------------------------------------------------------------
(* The record store statement by statement, called by concurrent goroutines *)

(* What a mutation returns and leaves when it runs alone on cache m at      *)
(* instant t (CreateURL 198-204, UpdateURL 215-222, DeleteURL 233-237).     *)
SeqErr(op, rec, m) ==
    CASE op = "CreateURL" -> IF rec.ShortCode \in DOMAIN m THEN "Conflict" ELSE "nil"
      [] op = "UpdateURL" -> IF rec.ShortCode \in DOMAIN m THEN "nil" ELSE "NotFound"
      [] op = "DeleteURL" -> IF rec.ShortCode \in DOMAIN m THEN "nil" ELSE "NotFound"

SeqApply(op, rec, m, t) ==
    IF SeqErr(op, rec, m) # "nil" THEN m
    ELSE CASE op = "CreateURL" -> Put(m, rec.ShortCode, [rec EXCEPT !.CreateTime = t])
           [] op = "UpdateURL" ->
                Put(m, rec.ShortCode, [rec EXCEPT !.CreateTime = m[rec.ShortCode].CreateTime])
           [] op = "DeleteURL" -> Del(m, rec.ShortCode)

(* A call: the operation and its argument (DeleteURL and GetURLByCode take  *)
(* the code of rec; GetAllURLs takes nothing).                              *)
CallOf(op, rec) == [op |-> op, rec |-> rec]

(* The caller p enters the call c, up to its first statement, the lock. *)
Call(p, c) ==
    /\ alive
    /\ pc[p] = "idle"
    /\ loc' = [loc EXCEPT ![p] = [IdleLoc EXCEPT !.op = c.op, !.rec = c.rec]]
    /\ pc' = [pc EXCEPT ![p] = IF c.op \in Mutations THEN "lock" ELSE "rlock"]
    /\ UNCHANGED <<storeVars, now, sessVars, httpVars, sconcVars, writer, readers, acache>>

(* A Lock() that does not wait. *)
LockNoWait(p) == TRUE

(* s.mutex.Lock() returns only while nobody holds the mutex. *)
LockFree(p) == writer = None /\ readers = {}

(* s.mutex.Lock(), lines 195, 212, 230 *)
Lock(p) ==
    /\ pc[p] = "lock"
    /\ LockFree(p)
    /\ writer' = p
    /\ pc' = [pc EXCEPT ![p] = "check"]
    /\ UNCHANGED <<storeVars, now, sessVars, httpVars, sconcVars, loc, readers, acache>>

(* The existence check, lines 198-200, 215-218, 233-235: a failed check     *)
(* returns (to the deferred Unlock).                                        *)
Check(p) ==
    /\ pc[p] = "check"
    /\ IF SeqErr(loc[p].op, loc[p].rec, cache) # "nil"
       THEN /\ loc' = [loc EXCEPT ![p].err = SeqErr(loc[p].op, loc[p].rec, cache),
                                  ![p].exp = SeqErr(loc[p].op, loc[p].rec, acache)]
            /\ pc' = [pc EXCEPT ![p] = "unlock"]
       ELSE /\ pc' = [pc EXCEPT ![p] = "store"]
            /\ UNCHANGED loc
    /\ UNCHANGED <<storeVars, now, sessVars, httpVars, sconcVars, writer, readers, acache>>

(* The cache update and  s.isDirty = true, lines 202-205, 220-223, 237-238. *)
Store(p) ==
    /\ pc[p] = "store"
    /\ cache' =
         CASE loc[p].op = "CreateURL" ->
                Put(cache, loc[p].rec.ShortCode, [loc[p].rec EXCEPT !.CreateTime = now])
           [] loc[p].op = "UpdateURL" ->
                Put(cache, loc[p].rec.ShortCode,
                    [loc[p].rec EXCEPT !.CreateTime = GetURLByCodeVal(loc[p].rec.ShortCode).CreateTime])
           [] loc[p].op = "DeleteURL" -> Del(cache, loc[p].rec.ShortCode)
    /\ isDirty' = TRUE
    /\ acache' = SeqApply(loc[p].op, loc[p].rec, acache, now)
    /\ loc' = [loc EXCEPT ![p].exp = SeqErr(loc[p].op, loc[p].rec, acache)]
    /\ pc' = [pc EXCEPT ![p] = "create"]
    /\ UNCHANGED <<lastBackup, file, backups, tickTime, alive, last, ioFailed, faults, quiet,
                   now, sessVars, httpVars, sconcVars, writer, readers>>

(* saveToFile, lines 98-101: os.Create fails, or truncates the file. *)
OsCreate(p) ==
    /\ pc[p] = "create"
    /\ \/ /\ faults < MaxFaults
          /\ faults' = faults + 1
          /\ ioFailed' = TRUE
          /\ loc' = [loc EXCEPT ![p].err = "IOFailure"]
          /\ pc' = [pc EXCEPT ![p] = "unlock"]
          /\ UNCHANGED file
       \/ /\ file' = Truncated
          /\ pc' = [pc EXCEPT ![p] = "range"]
          /\ UNCHANGED <<faults, ioFailed, loc>>
    /\ UNCHANGED <<cache, isDirty, lastBackup, backups, tickTime, alive, last, quiet,
                   now, sessVars, httpVars, sconcVars, writer, readers, acache>>

(* saveToFile, lines 104-107: the records slice, in range order. *)
Range(p) ==
    /\ pc[p] = "range"
    /\ \E o \in RangeOrders(cache) :
         loc' = [loc EXCEPT ![p].records = [i \in DOMAIN o |-> cache[o[i]]]]
    /\ pc' = [pc EXCEPT ![p] = "encode"]
    /\ UNCHANGED <<storeVars, now, sessVars, httpVars, sconcVars, writer, readers, acache>>

(* saveToFile, lines 109-111: Encode writes the document of the records    *)
(* slice (nil: null), or fails.                                            *)
Encode(p) ==
    /\ pc[p] = "encode"
    /\ \/ /\ faults < MaxFaults
          /\ faults' = faults + 1
          /\ ioFailed' = TRUE
          /\ file' = Partial
          /\ loc' = [loc EXCEPT ![p].err = "IOFailure"]
       \/ /\ file' = IF loc[p].records = <<>> THEN JSONNull
                      ELSE JSONArray([i \in DOMAIN loc[p].records |->
                                        EncodeRecord(loc[p].records[i])])
          /\ loc' = [loc EXCEPT ![p].err = "nil"]
          /\ UNCHANGED <<faults, ioFailed>>
    /\ pc' = [pc EXCEPT ![p] = "unlock"]
    /\ UNCHANGED <<cache, isDirty, lastBackup, backups, tickTime, alive, last, quiet,
                   now, sessVars, httpVars, sconcVars, writer, readers, acache>>

(* The deferred s.mutex.Unlock(), lines 196, 213, 231: the call returns. *)
Unlock(p) ==
    /\ pc[p] = "unlock"
    /\ writer' = IF writer = p THEN None ELSE writer
    /\ pc' = [pc EXCEPT ![p] = "ret"]
    /\ UNCHANGED <<storeVars, now, sessVars, httpVars, sconcVars, loc, readers, acache>>

(* The caller takes the result and is free to call again. *)
Return(p) ==
    /\ pc[p] = "ret"
    /\ pc' = [pc EXCEPT ![p] = "idle"]
    /\ loc' = [loc EXCEPT ![p] = IdleLoc]
    /\ UNCHANGED <<storeVars, now, sessVars, httpVars, sconcVars, writer, readers, acache>>

(* The code each goroutine creates when every goroutine creates its own. *)
OwnCode(p) == CASE p = "p1" -> "a" [] p = "p2" -> "b" [] p = "p3" -> "c"

(* Every goroutine calls CreateURL once, with a code of its own. *)
NextCreates ==
    \/ Tick
    \/ \E p \in Clients :
         /\ loc[p].op = "none"
         /\ Call(p, CallOf("CreateURL", URLRecord(OwnCode(p), "u1", "", MaxTime)))
    \/ \E p \in Clients : Lock(p)
    \/ \E p \in Clients : Check(p)
    \/ \E p \in Clients : Store(p)
    \/ \E p \in Clients : OsCreate(p)
    \/ \E p \in Clients : Range(p)
    \/ \E p \in Clients : Encode(p)
    \/ \E p \in Clients : Unlock(p)

SpecCreates == Init /\ [][NextCreates]_vars

(* The callers of the concurrent specification and their calls. *)
ConcClients == {"p1", "p2"}

(* What a read returns on cache m: GetURLByCode the error and a copy of the *)
(* record, GetAllURLs a copy of every record.                               *)
SeqRead(op, rec, m) ==
    IF op = "GetAllURLs" THEN [err |-> "nil", out |-> {m[k] : k \in DOMAIN m}]
    ELSE IF rec.ShortCode \in DOMAIN m
         THEN [err |-> "nil", out |-> {m[rec.ShortCode]}]
         ELSE [err |-> "NotFound", out |-> {}]

(* An RLock() that does not wait. *)
RLockNoWait(p) == TRUE

(* s.mutex.RLock() returns only while nobody holds the mutex exclusively. *)
RLockFree(p) == writer = None

(* s.mutex.RLock(), lines 168, 181 *)
RLock(p) ==
    /\ pc[p] = "rlock"
    /\ RLockFree(p)
    /\ readers' = readers \cup {p}
    /\ loc' = [loc EXCEPT ![p].exp = SeqRead(loc[p].op, loc[p].rec, acache).err,
                          ![p].expOut = SeqRead(loc[p].op, loc[p].rec, acache).out]
    /\ pc' = [pc EXCEPT ![p] = IF loc[p].op = "GetAllURLs" THEN "iterate" ELSE "lookup"]
    /\ UNCHANGED <<storeVars, now, sessVars, httpVars, sconcVars, writer, acache>>

(* GetURLByCode, lines 184-190: the lookup and the copy. *)
Lookup(p) ==
    /\ pc[p] = "lookup"
    /\ loc' = [loc EXCEPT ![p].err = SeqRead(loc[p].op, loc[p].rec, cache).err,
                          ![p].out = SeqRead(loc[p].op, loc[p].rec, cache).out]
    /\ pc' = [pc EXCEPT ![p] = "runlock"]
    /\ UNCHANGED <<storeVars, now, sessVars, httpVars, sconcVars, writer, readers, acache>>

(* GetAllURLs, lines 172-174: one turn of the loop over the map, or its end. *)
Iterate(p) ==
    /\ pc[p] = "iterate"
    /\ IF DOMAIN cache \subseteq loc[p].visited
       THEN /\ loc' = [loc EXCEPT ![p].err = "nil"]
            /\ pc' = [pc EXCEPT ![p] = "runlock"]
       ELSE /\ \E k \in DOMAIN cache \ loc[p].visited :
                 loc' = [loc EXCEPT ![p].visited = @ \cup {k},
                                    ![p].out = @ \cup {cache[k]}]
            /\ UNCHANGED pc
    /\ UNCHANGED <<storeVars, now, sessVars, httpVars, sconcVars, writer, readers, acache>>

(* The deferred s.mutex.RUnlock(), lines 169, 182: the call returns. *)
RUnlock(p) ==
    /\ pc[p] = "runlock"
    /\ readers' = readers \ {p}
    /\ pc' = [pc EXCEPT ![p] = "ret"]
    /\ UNCHANGED <<storeVars, now, sessVars, httpVars, sconcVars, loc, writer, acache>>

(* startBackupScheduler, line 119: the ticker fires, BackupInterval after   *)
(* its last firing; in this specification the clock advances with it.       *)
TickerFires ==
    /\ alive
    /\ pc[Scheduler] = "wait"
    /\ tickTime + BackupInterval <= MaxTime
    /\ now' = tickTime + BackupInterval
    /\ tickTime' = now'
    /\ pc' = [pc EXCEPT ![Scheduler] = "bk_rlock"]
    /\ UNCHANGED <<cache, isDirty, lastBackup, file, backups, alive, last, ioFailed, faults,
                   quiet, sessVars, httpVars, sconcVars, loc, writer, readers, acache>>

(* startBackupScheduler, line 120 *)
SchedulerRLock ==
    /\ pc[Scheduler] = "bk_rlock"
    /\ RLockFree(Scheduler)
    /\ readers' = readers \cup {Scheduler}
    /\ pc' = [pc EXCEPT ![Scheduler] = "bk_read"]
    /\ UNCHANGED <<storeVars, now, sessVars, httpVars, sconcVars, loc, writer, acache>>

(* startBackupScheduler, lines 121-124: needsBackup := s.isDirty, RUnlock,  *)
(* and the test of needsBackup.                                             *)
SchedulerRead ==
    /\ pc[Scheduler] = "bk_read"
    /\ readers' = readers \ {Scheduler}
    /\ pc' = [pc EXCEPT ![Scheduler] = IF isDirty THEN "bk_lock" ELSE "wait"]
    /\ UNCHANGED <<storeVars, now, sessVars, httpVars, sconcVars, loc, writer, acache>>

(* createBackup, line 134 *)
SchedulerLock ==
    /\ pc[Scheduler] = "bk_lock"
    /\ LockFree(Scheduler)
    /\ writer' = Scheduler
    /\ pc' = [pc EXCEPT ![Scheduler] = "bk_backup"]
    /\ UNCHANGED <<storeVars, now, sessVars, httpVars, sconcVars, loc, readers, acache>>

(* createBackup, lines 137-163 *)
SchedulerBackup ==
    /\ pc[Scheduler] = "bk_backup"
    /\ \E o \in {x \in createBackup(file, backups, isDirty, lastBackup, now) :
                   ~x.fault \/ faults < MaxFaults} :
         /\ backups' = o.backups
         /\ isDirty' = o.isDirty
         /\ lastBackup' = o.lastBackup
         /\ faults' = IF o.fault THEN faults + 1 ELSE faults
         /\ loc' = [loc EXCEPT ![Scheduler].err = o.err]
    /\ pc' = [pc EXCEPT ![Scheduler] = "bk_unlock"]
    /\ UNCHANGED <<cache, file, tickTime, alive, last, ioFailed, quiet,
                   now, sessVars, httpVars, sconcVars, writer, readers, acache>>

(* createBackup, line 135 (deferred), and lines 125-127 *)
SchedulerUnlock ==
    /\ pc[Scheduler] = "bk_unlock"
    /\ writer' = IF writer = Scheduler THEN None ELSE writer
    /\ pc' = [pc EXCEPT ![Scheduler] = "wait"]
    /\ loc' = [loc EXCEPT ![Scheduler] = IdleLoc]
    /\ UNCHANGED <<storeVars, now, sessVars, httpVars, sconcVars, readers, acache>>

(* The record store called by concurrent goroutines. *)
NextConc ==
    \/ \E p \in ConcClients,
          c \in {CallOf("CreateURL", URLRecord(code, "u1", "", MaxTime)) : code \in {"a", "b"}}
                \cup {CallOf("UpdateURL", URLRecord("a", "u2", "r", 0)),
                      CallOf("DeleteURL", URLRecord("a", "", "", 0)),
                      CallOf("GetURLByCode", URLRecord("a", "", "", 0)),
                      CallOf("GetAllURLs", NoRecord)} : Call(p, c)
    \/ \E p \in ConcClients : Lock(p)
    \/ \E p \in ConcClients : Check(p)
    \/ \E p \in ConcClients : Store(p)
    \/ \E p \in ConcClients : OsCreate(p)
    \/ \E p \in ConcClients : Range(p)
    \/ \E p \in ConcClients : Encode(p)
    \/ \E p \in ConcClients : Unlock(p)
    \/ \E p \in ConcClients : RLock(p)
    \/ \E p \in ConcClients : Lookup(p)
    \/ \E p \in ConcClients : Iterate(p)
    \/ \E p \in ConcClients : RUnlock(p)
    \/ \E p \in ConcClients : Return(p)

SpecConc == Init /\ [][NextConc]_vars

(* The record store called by a writer and a reader, with the scheduler:    *)
(* p1 mutates, p2 reads.                                                    *)
NextSched ==
    \/ \E c \in {CallOf("CreateURL", URLRecord("a", "u1", "", MaxTime)),
                 CallOf("DeleteURL", URLRecord("a", "", "", 0))} : Call("p1", c)
    \/ Call("p2", CallOf("GetAllURLs", NoRecord))
    \/ \E p \in ConcClients : Lock(p)
    \/ \E p \in ConcClients : Check(p)
    \/ \E p \in ConcClients : Store(p)
    \/ \E p \in ConcClients : OsCreate(p)
    \/ \E p \in ConcClients : Range(p)
    \/ \E p \in ConcClients : Encode(p)
    \/ \E p \in ConcClients : Unlock(p)
    \/ \E p \in ConcClients : RLock(p)
    \/ \E p \in ConcClients : Iterate(p)
    \/ \E p \in ConcClients : RUnlock(p)
    \/ \E p \in ConcClients : Return(p)
    \/ TickerFires
    \/ SchedulerRLock
    \/ SchedulerRead
    \/ SchedulerLock
    \/ SchedulerBackup
    \/ SchedulerUnlock

SpecSched == Init /\ [][NextSched]_vars

----------------------------------------------------------------------------
(* The session manager (internal/session/session.go) *)

(* The number of sessions the model creates. *)
MaxSessions == 2

(* maxLifetime, in clock units. *)
MaxLifetime == 2

(* session.Session *)
Session(id, values, created, expires) ==
    [ID |-> id, Values |-> values, CreatedAt |-> created, ExpiresAt |-> expires]

(* generateSessionID: 32 random bytes, URL-safe base64; the n-th call       *)
(* returns an id no earlier call returned. The build is Go 1.24             *)
(* (Dockerfile, line 2), where crypto/rand.Read returns no error, so the    *)
(* error return of line 76 is never taken.                                  *)
generateSessionID(n) == ToString(n)

(* The cookies a request can carry: none, an empty one, an issued id, an id *)
(* the manager never issued.                                                *)
Cookies ==
    {NoCookie, Cookie(""), Cookie("forged")}
    \cup {Cookie(generateSessionID(n)) : n \in 1..MaxSessions}

(* time.Now().Before(t) and time.Now().After(t) *)
Before(t, u) == t < u
After(t, u) == t > u

(* Start without the expiry test of line 66: it reuses any stored session. *)
StartReuseExpired(cookie) ==
    /\ IF /\ cookie.present
          /\ cookie.value # ""
          /\ cookie.value \in DOMAIN sessions
       THEN /\ sessions' = [sessions EXCEPT ![cookie.value].ExpiresAt = now + MaxLifetime]
            /\ slast' = SResult("Start", cookie, "nil", cookie.value, FALSE)
            /\ UNCHANGED nextID
       ELSE /\ nextID <= MaxSessions
            /\ sessions' = Put(sessions, generateSessionID(nextID),
                               Session(generateSessionID(nextID), EmptyMap, now,
                                       now + MaxLifetime))
            /\ nextID' = nextID + 1
            /\ slast' = SResult("Start", cookie, "nil", generateSessionID(nextID), TRUE)
    /\ UNCHANGED <<storeVars, now, concVars, httpVars, sconcVars>>

(* Start, lines 57-99 *)
Start(cookie) ==
    /\ IF /\ cookie.present
          /\ cookie.value # ""
          /\ cookie.value \in DOMAIN sessions
          /\ Before(now, sessions[cookie.value].ExpiresAt)
       THEN /\ sessions' = [sessions EXCEPT ![cookie.value].ExpiresAt = now + MaxLifetime]
            /\ slast' = SResult("Start", cookie, "nil", cookie.value, FALSE)
            /\ UNCHANGED nextID
       ELSE /\ nextID <= MaxSessions
            /\ sessions' = Put(sessions, generateSessionID(nextID),
                               Session(generateSessionID(nextID), EmptyMap, now,
                                       now + MaxLifetime))
            /\ nextID' = nextID + 1
            /\ slast' = SResult("Start", cookie, "nil", generateSessionID(nextID), TRUE)
    /\ UNCHANGED <<storeVars, now, concVars, httpVars, sconcVars>>

(* Get, lines 102-125: the error it returns. *)
GetErr(cookie) ==
    IF ~cookie.present THEN "NoCookie"
    ELSE IF cookie.value \notin DOMAIN sessions THEN "NotExist"
    ELSE IF After(now, sessions[cookie.value].ExpiresAt) THEN "Expired"
    ELSE "nil"

(* Get that reports an expired session without line 119: it stays stored. *)
GetNoEvict(cookie) ==
    /\ slast' = SResult("Get", cookie, GetErr(cookie),
                        IF GetErr(cookie) = "nil" THEN cookie.value ELSE "", FALSE)
    /\ UNCHANGED <<storeVars, now, sessions, nextID, concVars, httpVars, sconcVars>>

(* Get that renews the session it returns, as Start does at line 68. *)
GetRenews(cookie) ==
    /\ slast' = SResult("Get", cookie, GetErr(cookie),
                        IF GetErr(cookie) = "nil" THEN cookie.value ELSE "", FALSE)
    /\ sessions' = IF GetErr(cookie) = "Expired"
                   THEN Del(sessions, cookie.value)
                   ELSE IF GetErr(cookie) = "nil"
                   THEN [sessions EXCEPT ![cookie.value].ExpiresAt = now + MaxLifetime]
                   ELSE sessions
    /\ UNCHANGED <<storeVars, now, nextID, concVars, httpVars, sconcVars>>

(* Get, lines 102-125 *)
Get(cookie) ==
    /\ slast' = SResult("Get", cookie, GetErr(cookie),
                        IF GetErr(cookie) = "nil" THEN cookie.value ELSE "", FALSE)
    /\ sessions' = IF GetErr(cookie) = "Expired"
                   THEN Del(sessions, cookie.value)
                   ELSE sessions
    /\ UNCHANGED <<storeVars, now, nextID, concVars, httpVars, sconcVars>>

(* Destroy that replaces the map instead of deleting one key at line 135. *)
DestroyAll(cookie) ==
    /\ IF ~cookie.present
       THEN /\ slast' = SResult("Destroy", cookie, "nil", "", FALSE)
            /\ UNCHANGED sessions
       ELSE /\ sessions' = EmptyMap
            /\ slast' = SResult("Destroy", cookie, "nil", "", TRUE)
    /\ UNCHANGED <<storeVars, now, nextID, concVars, httpVars, sconcVars>>

(* Destroy, lines 128-144 *)
Destroy(cookie) ==
    /\ IF ~cookie.present
       THEN /\ slast' = SResult("Destroy", cookie, "nil", "", FALSE)
            /\ UNCHANGED sessions
       ELSE /\ sessions' = Del(sessions, cookie.value)
            /\ slast' = SResult("Destroy", cookie, "nil", "", TRUE)
    /\ UNCHANGED <<storeVars, now, nextID, concVars, httpVars, sconcVars>>

(* GC with the comparison of line 152 the wrong way round. *)
GCBefore ==
    /\ sessions' = [id \in {i \in DOMAIN sessions : ~Before(now, sessions[i].ExpiresAt)}
                      |-> sessions[id]]
    /\ slast' = SResult("GC", NoCookie, "nil", "", FALSE)
    /\ UNCHANGED <<storeVars, now, nextID, concVars, httpVars, sconcVars>>

(* GC, lines 147-156 *)
GC ==
    /\ sessions' = [id \in {i \in DOMAIN sessions : ~After(now, sessions[i].ExpiresAt)}
                      |-> sessions[id]]
    /\ slast' = SResult("GC", NoCookie, "nil", "", FALSE)
    /\ UNCHANGED <<storeVars, now, nextID, concVars, httpVars, sconcVars>>

(* The session manager, called by one caller after another. *)
NextSession ==
    \/ Tick
    \/ \E cookie \in Cookies : Start(cookie)
    \/ \E cookie \in Cookies : Get(cookie)
    \/ \E cookie \in Cookies : Destroy(cookie)
    \/ GC

SpecSession == Init /\ [][NextSession]_vars

(* The session manager with its reaper running for ever (StartGCTimer,     *)
(* lines 159-167). Requests arrive up to instant MaxTime; the clock runs   *)
(* on after the last of them until every session they left has expired.    *)

ClockRuns ==
    /\ now < (MaxTime + MaxLifetime + 1)
    /\ now' = now + 1
    /\ UNCHANGED <<storeVars, sessVars, httpVars, sconcVars, concVars>>

(* The cookies of requests that carry no cookie or an id the manager       *)
(* issues (not stored before it is issued).                                *)
IssuedCookies == {NoCookie} \cup {Cookie(generateSessionID(n)) : n \in 1..MaxSessions}

NextReaper ==
    \/ ClockRuns
    \/ \E cookie \in IssuedCookies : now <= MaxTime /\ Start(cookie)
    \/ \E cookie \in IssuedCookies : now <= MaxTime /\ Get(cookie)
    \/ now <= MaxTime /\ Destroy(Cookie(generateSessionID(1)))
    \/ GC

SpecReaper == Init /\ [][NextReaper]_vars /\ WF_vars(ClockRuns) /\ WF_vars(GC)

----------------------------------------------------------------------------
(* The session manager called by concurrent goroutines, statement by       *)
(* statement. A goroutine that looked a session up holds a pointer to it:  *)
(* it reads and writes the Session value in objects, whether or not the id *)
(* is still a key of Manager.sessions.                                     *)

(* One step of a caller: its position and locals change, the rest of the *)
(* goroutines stay where they are.                                        *)
SGoto(p, label, l) ==
    /\ spc' = [spc EXCEPT ![p] = label]
    /\ sloc' = [sloc EXCEPT ![p] = l]

(* A write through the pointer: the Session value changes, and with it the *)
(* entry of the map while the map holds the pointer.                       *)
WriteExpiresAt(id, t) ==
    /\ objects' = [objects EXCEPT ![id].ExpiresAt = t]
    /\ sessions' = IF id \in DOMAIN sessions
                   THEN [sessions EXCEPT ![id].ExpiresAt = t]
                   ELSE sessions

(* Start, line 59-60: the cookie of the request. *)
StartCall(p, cookie) ==
    /\ spc[p] = "idle"
    /\ SGoto(p, IF cookie.present /\ cookie.value # "" THEN "st_rlock" ELSE "st_gen",
             [IdleSLoc EXCEPT !.op = "Start", !.cookie = cookie])
    /\ UNCHANGED <<sessVars, swriter, sreaders, objects>>
    /\ UNCHANGED <<storeVars, now, concVars, httpVars>>

(* Start, line 62 *)
StartRLock(p) ==
    /\ spc[p] = "st_rlock"
    /\ swriter = None
    /\ sreaders' = sreaders \cup {p}
    /\ SGoto(p, "st_lookup", sloc[p])
    /\ UNCHANGED <<sessVars, swriter, objects>>
    /\ UNCHANGED <<storeVars, now, concVars, httpVars>>

(* Start, lines 63-64: the lookup under the shared lock, and its release. *)
StartLookup(p) ==
    /\ spc[p] = "st_lookup"
    /\ sreaders' = sreaders \ {p}
    /\ SGoto(p, "st_check",
             [sloc[p] EXCEPT !.exists = sloc[p].cookie.value \in DOMAIN sessions,
                             !.id = IF sloc[p].cookie.value \in DOMAIN sessions
                                    THEN sloc[p].cookie.value ELSE ""])
    /\ UNCHANGED <<sessVars, swriter, objects>>
    /\ UNCHANGED <<storeVars, now, concVars, httpVars>>

(* Start, line 66: the test of ExpiresAt, read through the pointer. *)
StartCheck(p) ==
    /\ spc[p] = "st_check"
    /\ SGoto(p, IF sloc[p].exists /\ Before(now, objects[sloc[p].id].ExpiresAt)
                THEN "st_renew" ELSE "st_gen", sloc[p])
    /\ UNCHANGED <<sessVars, swriter, sreaders, objects>>
    /\ UNCHANGED <<storeVars, now, concVars, httpVars>>

(* Start, lines 68-69: the renewal, written through the pointer, and the *)
(* return of the session.                                                *)
StartRenew(p) ==
    /\ spc[p] = "st_renew"
    /\ WriteExpiresAt(sloc[p].id, now + MaxLifetime)
    /\ slast' = SResult("Start", sloc[p].cookie, "nil", sloc[p].id, FALSE)
    /\ SGoto(p, "idle", IdleSLoc)
    /\ UNCHANGED <<nextID, swriter, sreaders>>
    /\ UNCHANGED <<storeVars, now, concVars, httpVars>>

(* Start, lines 74-84: a new Session value under a new id. *)
StartNew(p) ==
    /\ spc[p] = "st_gen"
    /\ nextID <= MaxSessions
    /\ nextID' = nextID + 1
    /\ objects' = Put(objects, generateSessionID(nextID),
                      Session(generateSessionID(nextID), EmptyMap, now, now + MaxLifetime))
    /\ SGoto(p, "st_lock", [sloc[p] EXCEPT !.id = generateSessionID(nextID)])
    /\ UNCHANGED <<sessions, slast, swriter, sreaders>>
    /\ UNCHANGED <<storeVars, now, concVars, httpVars>>

(* Start, line 87 *)
StartLock(p) ==
    /\ spc[p] = "st_lock"
    /\ swriter = None /\ sreaders = {}
    /\ swriter' = p
    /\ SGoto(p, "st_store", sloc[p])
    /\ UNCHANGED <<sessVars, sreaders, objects>>
    /\ UNCHANGED <<storeVars, now, concVars, httpVars>>

(* Start, lines 88-98: the store under the exclusive lock, its release, *)
(* the cookie and the return.                                           *)
StartStore(p) ==
    /\ spc[p] = "st_store"
    /\ sessions' = Put(sessions, sloc[p].id, objects[sloc[p].id])
    /\ swriter' = None
    /\ slast' = SResult("Start", sloc[p].cookie, "nil", sloc[p].id, TRUE)
    /\ SGoto(p, "idle", IdleSLoc)
    /\ UNCHANGED <<nextID, sreaders, objects>>
    /\ UNCHANGED <<storeVars, now, concVars, httpVars>>

(* Get, lines 103-106 *)
GetCall(p, cookie) ==
    /\ spc[p] = "idle"
    /\ IF cookie.present
       THEN /\ SGoto(p, "g_rlock", [IdleSLoc EXCEPT !.op = "Get", !.cookie = cookie])
            /\ UNCHANGED slast
       ELSE /\ slast' = SResult("Get", cookie, "NoCookie", "", FALSE)
            /\ UNCHANGED <<spc, sloc>>
    /\ UNCHANGED <<sessions, nextID, swriter, sreaders, objects>>
    /\ UNCHANGED <<storeVars, now, concVars, httpVars>>

(* Get, line 108 *)
GetRLock(p) ==
    /\ spc[p] = "g_rlock"
    /\ swriter = None
    /\ sreaders' = sreaders \cup {p}
    /\ SGoto(p, "g_lookup", sloc[p])
    /\ UNCHANGED <<sessVars, swriter, objects>>
    /\ UNCHANGED <<storeVars, now, concVars, httpVars>>

(* Get, lines 109-110: the lookup under the shared lock, and its release. *)
GetLookup(p) ==
    /\ spc[p] = "g_lookup"
    /\ sreaders' = sreaders \ {p}
    /\ SGoto(p, "g_check",
             [sloc[p] EXCEPT !.exists = sloc[p].cookie.value \in DOMAIN sessions,
                             !.id = IF sloc[p].cookie.value \in DOMAIN sessions
                                    THEN sloc[p].cookie.value ELSE ""])
    /\ UNCHANGED <<sessVars, swriter, objects>>
    /\ UNCHANGED <<storeVars, now, concVars, httpVars>>

(* Get, lines 112-116 and 124: the test of ExpiresAt, read through the *)
(* pointer, and the return of the session or of NotExist.              *)
GetCheck(p) ==
    /\ spc[p] = "g_check"
    /\ IF ~sloc[p].exists
       THEN /\ slast' = SResult("Get", sloc[p].cookie, "NotExist", "", FALSE)
            /\ SGoto(p, "idle", IdleSLoc)
       ELSE IF After(now, objects[sloc[p].id].ExpiresAt)
       THEN /\ SGoto(p, "g_lock", sloc[p])
            /\ UNCHANGED slast
       ELSE /\ slast' = SResult("Get", sloc[p].cookie, "nil", sloc[p].id, FALSE)
            /\ SGoto(p, "idle", IdleSLoc)
    /\ UNCHANGED <<sessions, nextID, swriter, sreaders, objects>>
    /\ UNCHANGED <<storeVars, now, concVars, httpVars>>

(* Get, line 118 *)
GetLock(p) ==
    /\ spc[p] = "g_lock"
    /\ swriter = None /\ sreaders = {}
    /\ swriter' = p
    /\ SGoto(p, "g_delete", sloc[p])
    /\ UNCHANGED <<sessVars, sreaders, objects>>
    /\ UNCHANGED <<storeVars, now, concVars, httpVars>>

(* Get, lines 119-121: the delete under the exclusive lock, its release, *)
(* and the return of Expired.                                            *)
GetDelete(p) ==
    /\ spc[p] = "g_delete"
    /\ sessions' = Del(sessions, sloc[p].cookie.value)
    /\ swriter' = None
    /\ slast' = SResult("Get", sloc[p].cookie, "Expired", "", FALSE)
    /\ SGoto(p, "idle", IdleSLoc)
    /\ UNCHANGED <<nextID, sreaders, objects>>
    /\ UNCHANGED <<storeVars, now, concVars, httpVars>>

(* Destroy, lines 129-134 *)
DestroyCall(p, cookie) ==
    /\ spc[p] = "idle"
    /\ IF cookie.present
       THEN /\ SGoto(p, "d_lock", [IdleSLoc EXCEPT !.op = "Destroy", !.cookie = cookie])
            /\ UNCHANGED slast
       ELSE /\ slast' = SResult("Destroy", cookie, "nil", "", FALSE)
            /\ UNCHANGED <<spc, sloc>>
    /\ UNCHANGED <<sessions, nextID, swriter, sreaders, objects>>
    /\ UNCHANGED <<storeVars, now, concVars, httpVars>>

(* Destroy, line 134 *)
DestroyLock(p) ==
    /\ spc[p] = "d_lock"
    /\ swriter = None /\ sreaders = {}
    /\ swriter' = p
    /\ SGoto(p, "d_delete", sloc[p])
    /\ UNCHANGED <<sessVars, sreaders, objects>>
    /\ UNCHANGED <<storeVars, now, concVars, httpVars>>

(* Destroy, lines 135-143: the delete under the exclusive lock, its *)
(* release, the cleared cookie and the return.                      *)
DestroyDelete(p) ==
    /\ spc[p] = "d_delete"
    /\ sessions' = Del(sessions, sloc[p].cookie.value)
    /\ swriter' = None
    /\ slast' = SResult("Destroy", sloc[p].cookie, "nil", "", TRUE)
    /\ SGoto(p, "idle", IdleSLoc)
    /\ UNCHANGED <<nextID, sreaders, objects>>
    /\ UNCHANGED <<storeVars, now, concVars, httpVars>>

(* StartGCTimer, lines 162-164: the ticker fires and the reaper calls GC. *)
GCCall ==
    /\ spc[Reaper] = "idle"
    /\ SGoto(Reaper, "gc_lock", [IdleSLoc EXCEPT !.op = "GC"])
    /\ UNCHANGED <<sessVars, swriter, sreaders, objects>>
    /\ UNCHANGED <<storeVars, now, concVars, httpVars>>

(* GC, line 148 *)
GCLock ==
    /\ spc[Reaper] = "gc_lock"
    /\ swriter = None /\ sreaders = {}
    /\ swriter' = Reaper
    /\ SGoto(Reaper, "gc_range", sloc[Reaper])
    /\ UNCHANGED <<sessVars, sreaders, objects>>
    /\ UNCHANGED <<storeVars, now, concVars, httpVars>>

(* GC, lines 151-155: one iteration of the range over the map, in any     *)
(* order; it reads ExpiresAt of the session it visits.                    *)
GCVisit(id) ==
    /\ spc[Reaper] = "gc_range"
    /\ id \in DOMAIN sessions \ sloc[Reaper].visited
    /\ sessions' = IF After(now, objects[id].ExpiresAt) THEN Del(sessions, id) ELSE sessions
    /\ SGoto(Reaper, "gc_range", [sloc[Reaper] EXCEPT !.visited = @ \cup {id}])
    /\ UNCHANGED <<nextID, slast, swriter, sreaders, objects>>
    /\ UNCHANGED <<storeVars, now, concVars, httpVars>>

(* GC, line 149 (deferred): the range is over. *)
GCUnlock ==
    /\ spc[Reaper] = "gc_range"
    /\ DOMAIN sessions \subseteq sloc[Reaper].visited
    /\ swriter' = None
    /\ slast' = SResult("GC", NoCookie, "nil", "", FALSE)
    /\ SGoto(Reaper, "idle", IdleSLoc)
    /\ UNCHANGED <<sessions, nextID, sreaders, objects>>
    /\ UNCHANGED <<storeVars, now, concVars, httpVars>>

(* The session manager under two concurrent requests, one whose handler  *)
(* calls Start (the login) and one whose handler calls Get or Destroy    *)
(* (an administration page, the logout), and the reaper.                 *)
Starter == "s1"
Getter == "s2"

(* The cookies of their requests: none, or the first id issued. *)
ConcCookies == {NoCookie, Cookie(generateSessionID(1))}

NextSessConc ==
    \/ Tick
    \/ \E cookie \in ConcCookies : StartCall(Starter, cookie)
    \/ StartRLock(Starter)
    \/ StartLookup(Starter)
    \/ StartCheck(Starter)
    \/ StartRenew(Starter)
    \/ StartNew(Starter)
    \/ StartLock(Starter)
    \/ StartStore(Starter)
    \/ \E cookie \in ConcCookies : GetCall(Getter, cookie)
    \/ GetRLock(Getter)
    \/ GetLookup(Getter)
    \/ GetCheck(Getter)
    \/ GetLock(Getter)
    \/ GetDelete(Getter)
    \/ \E cookie \in ConcCookies : DestroyCall(Getter, cookie)
    \/ DestroyLock(Getter)
    \/ DestroyDelete(Getter)
    \/ GCCall
    \/ GCLock
    \/ \E id \in DOMAIN sessions : GCVisit(id)
    \/ GCUnlock

SpecSessConc == Init /\ [][NextSessConc]_vars

(* The same with no logout: the second request calls Get only. *)
NextSessRace ==
    \/ Tick
    \/ \E cookie \in ConcCookies : StartCall(Starter, cookie)
    \/ StartRLock(Starter)
    \/ StartLookup(Starter)
    \/ StartCheck(Starter)
    \/ StartRenew(Starter)
    \/ StartNew(Starter)
    \/ StartLock(Starter)
    \/ StartStore(Starter)
    \/ \E cookie \in ConcCookies : GetCall(Getter, cookie)
    \/ GetRLock(Getter)
    \/ GetLookup(Getter)
    \/ GetCheck(Getter)
    \/ GetLock(Getter)
    \/ GetDelete(Getter)
    \/ GCCall
    \/ GCLock
    \/ \E id \in DOMAIN sessions : GCVisit(id)
    \/ GCUnlock

SpecSessRace == Init /\ [][NextSessRace]_vars

----------------------------------------------------------------------------
(* The HTTP handlers (internal/handler) *)

(* The number of records the model appends to data/shorten_records.txt. *)
MaxRecords == 2

(* The strings of the file-based handlers are sequences of characters: "u"  *)
(* stands for the characters of an absolute URL without a comma, "," is the *)
(* comma.                                                                    *)
Comma == ","

(* handler.ShortenRequest, lines 20-24: the bodies POST /shorten is called *)
(* with.                                                                   *)
ShortenRequests ==
    {[TargetURL |-> target, ShortCode |-> code, Remark |-> <<>>] :
        target \in {<<>>, <<"u">>, <<"u", Comma, "v">>},
        code \in {<<>>, <<"c">>}}

(* The line of line 101: fmt.Sprintf("%s,%s,%s,%s\n", ...), the time as    *)
(* time.Now().Format(time.RFC3339) writes it.                              *)
Sprintf(r) ==
    r.ShortCode \o <<Comma>> \o r.TargetURL \o <<Comma>> \o r.Remark
        \o <<Comma>> \o <<ToString(r.Time)>> \o <<"\n">>

(* The text of data/shorten_records.txt: the lines appended so far. *)
RECURSIVE Concat(_)
Concat(lines) ==
    IF lines = <<>> THEN <<>> ELSE Head(lines) \o Concat(Tail(lines))

(* strings.Split: the pieces of s between the occurrences of sep. *)
RECURSIVE Split(_, _)
Split(s, sep) ==
    IF \A i \in DOMAIN s : s[i] # sep
    THEN <<s>>
    ELSE LET i == CHOOSE k \in DOMAIN s :
                    s[k] = sep /\ \A j \in 1..(k - 1) : s[j] # sep
         IN  <<SubSeq(s, 1, i - 1)>> \o Split(SubSeq(s, i + 1, Len(s)), sep)

(* csv.Reader.Read over the whole text, lines 133-139: one record per       *)
(* non-empty line, its fields the pieces between the commas (no field of    *)
(* the model holds a quote).                                                *)
CSVRecords(text) ==
    LET lines == Split(text, "\n")
    IN  [i \in {k \in DOMAIN lines : lines[k] # <<>>} |-> Split(lines[i], Comma)]

(* Lines 63-77: the short codes ShortenHandler finds already stored. It     *)
(* opens "shorten_records.txt" in the working directory, a file no handler  *)
(* writes (records go to data/shorten_records.txt, line 60), and the first  *)
(* fmt.Fscanf fails with "bad verb '%[' for string", Go's fmt having no     *)
(* scan sets: the loop ends at once and the set stays empty.                *)
existingCodes == {}

(* ShortenHandler, lines 38-115, for a POST with a JSON body. *)
ShortenHandler(req) ==
    /\ IF req.TargetURL = <<>>
       THEN /\ resp' = Response(400, <<>>)
            /\ UNCHANGED recordFile
       ELSE IF req.ShortCode # <<>> /\ req.ShortCode \in existingCodes
       THEN /\ resp' = Response(409, <<>>)
            /\ UNCHANGED recordFile
       ELSE \E code \in IF req.ShortCode = <<>>
                        THEN {<<"g">>} \ existingCodes
                        ELSE {req.ShortCode} :
              \/ /\ resp' = Response(500, <<>>)
                 /\ UNCHANGED recordFile
              \/ /\ Len(recordFile) < MaxRecords
                 /\ recordFile' = Append(recordFile,
                        [ShortCode |-> code, TargetURL |-> req.TargetURL,
                         Remark |-> req.Remark, Time |-> now])
                 /\ resp' = Response(200, code)
    /\ UNCHANGED <<storeVars, now, sessVars, concVars, sconcVars>>

(* The paths GET is called with on the file-based server. *)
LegacyPaths == {<<"/">>, <<"/", "c">>, <<"/", "g">>, <<"/", "x">>}

(* The first record of the file with at least two fields whose first field  *)
(* is the code, lines 135-147; 0 when there is none.                        *)
FirstMatch(recs, shortCode) ==
    LET hits == {i \in DOMAIN recs : Len(recs[i]) >= 2 /\ recs[i][1] = shortCode}
    IN  IF hits = {} THEN 0 ELSE CHOOSE i \in hits : \A j \in hits : i <= j

(* RedirectHandler, lines 118-150. os.Open fails while no record was ever   *)
(* appended (the file does not exist).                                      *)
RedirectHandler(path) ==
    /\ LET shortCode == Tail(path)
           recs == CSVRecords(Concat([i \in DOMAIN recordFile |-> Sprintf(recordFile[i])]))
       IN  resp' = IF shortCode = <<>> THEN Response(404, <<>>)
                   ELSE IF recordFile = <<>> THEN Response(404, <<>>)
                   ELSE IF FirstMatch(recs, shortCode) = 0 THEN Response(404, <<>>)
                   ELSE Response(302, recs[FirstMatch(recs, shortCode)][2])
    /\ UNCHANGED <<storeVars, now, sessVars, concVars, sconcVars, recordFile>>

(* handler.APIRequest, lines 12-16: the bodies the API is called with. *)
APIRequests ==
    {[TargetURL |-> target, ShortCode |-> code, Remark |-> ""] :
        target \in {"", "u1", "u2"}, code \in {"", "a"}}

(* APIHTTPHandler.ServeHTTP, lines 42-116, for a POST with a JSON body;     *)
(* authorized: the Basic credentials of the request are the configured      *)
(* ones. "g" is the code GenerateRandomCode(6) returns.                     *)
APIServeHTTP(request, authorized) ==
    IF ~authorized
    THEN /\ resp' = Response(401, <<>>)
         /\ UNCHANGED <<storeVars, now, sessVars, concVars, sconcVars, recordFile>>
    ELSE IF request.TargetURL = ""
    THEN /\ resp' = Response(400, <<>>)
         /\ UNCHANGED <<storeVars, now, sessVars, concVars, sconcVars, recordFile>>
    ELSE \E code \in IF request.ShortCode = "" THEN {"g"} ELSE {request.ShortCode} :
           /\ CreateURL(URLRecord(code, request.TargetURL, request.Remark, 0))
           /\ resp' = IF last'.err = "nil"
                      THEN Response(200, <<code, request.TargetURL>>)
                      ELSE Response(400, <<>>)
           /\ UNCHANGED recordFile

(* The paths GET is called with on the server of the record store: "/" and  *)
(* "/" followed by a code.                                                  *)
Paths == {<<"/">>, <<"/", "a">>, <<"/", "g">>, <<"/", "x">>}

(* strings.TrimPrefix(r.URL.Path, "/") *)
TrimPrefix(path) ==
    LET rest == IF path # <<>> /\ Head(path) = "/" THEN Tail(path) ELSE path
    IN  IF rest = <<>> THEN "" ELSE rest[1]

(* RedirectHTTPHandler.ServeHTTP, lines 23-40 *)
RedirectServeHTTP(path) ==
    /\ alive
    /\ LET shortCode == TrimPrefix(path)
       IN  resp' = IF shortCode = "" THEN Response(404, <<>>)
                   ELSE IF GetURLByCodeErr(shortCode) # "nil" THEN Response(404, <<>>)
                   ELSE Response(302, <<GetURLByCodeVal(shortCode).TargetURL>>)
    /\ UNCHANGED <<storeVars, now, sessVars, concVars, sconcVars, recordFile>>

(* The two servers behind their HTTP routes: POST /shorten and GET /<code>  *)
(* over the records file, and the API, the redirect and the mutations of    *)
(* the administration over the record store.                                *)
NextHTTP ==
    \/ \E req \in ShortenRequests : ShortenHandler(req)
    \/ \E path \in LegacyPaths : RedirectHandler(path)
    \/ \E request \in APIRequests, authorized \in BOOLEAN : APIServeHTTP(request, authorized)
    \/ \E record \in BackupRequests : UpdateURL(record) /\ UNCHANGED httpVars
    \/ DeleteURL("a") /\ UNCHANGED httpVars
    \/ \E path \in Paths : RedirectServeHTTP(path)

SpecHTTP == Init /\ [][NextHTTP]_vars

----------------------------------------------------------------------------
(* The administration (AdminHTTPHandler) *)

(* A handler of the administration is one step: the calls it makes on the   *)
(* session manager and on the record store, and the response it writes.     *)
(* What the manager returns stays inside the handler; slast keeps only the  *)
(* Get that withAuth turned away, with the cookie of the request.           *)

(* auth.UserManager: the accounts (NewUserManager creates "admin" with the  *)
(* password "admin"), and Authenticate, lines 146-158: the account exists   *)
(* and the password is its password.                                        *)
Users == {"admin"}
Authenticate(username, password) == username \in Users /\ password = "admin"

(* The forms POST /login is called with. *)
LoginForms ==
    {[username |-> "admin", password |-> "admin"],
     [username |-> "admin", password |-> "guess"]}

(* session.Values["username"].(string): the empty string when the key is   *)
(* not set.                                                                *)
Username(session) ==
    IF "username" \in DOMAIN session.Values THEN session.Values["username"] ELSE ""

(* What Start (session.go, lines 57-99) returns and leaves for a request    *)
(* with this cookie: the session reused and renewed, or a new one.          *)
StartVal(cookie) ==
    IF /\ cookie.present
       /\ cookie.value # ""
       /\ cookie.value \in DOMAIN sessions
       /\ Before(now, sessions[cookie.value].ExpiresAt)
    THEN [id |-> cookie.value, setCookie |-> FALSE, nextID |-> nextID,
          sessions |-> [sessions EXCEPT ![cookie.value].ExpiresAt = now + MaxLifetime]]
    ELSE [id |-> generateSessionID(nextID), setCookie |-> TRUE, nextID |-> nextID + 1,
          sessions |-> Put(sessions, generateSessionID(nextID),
                           Session(generateSessionID(nextID), EmptyMap, now,
                                   now + MaxLifetime))]

(* handleLogin, lines 175-207. The last id is never issued, so that a       *)
(* request can carry a token the manager does not know.                     *)
handleLogin(cookie, form) ==
    /\ IF ~Authenticate(form.username, form.password)
       THEN /\ resp' = Response(200, <<"login.html", "error">>)
            /\ UNCHANGED sessVars
       ELSE /\ StartVal(cookie).setCookie => nextID < MaxSessions
            /\ sessions' = [StartVal(cookie).sessions EXCEPT
                              ![StartVal(cookie).id].Values = Put(@, "username", form.username)]
            /\ nextID' = StartVal(cookie).nextID
            /\ resp' = Response(302, <<"/admin">>)
            /\ UNCHANGED slast
    /\ UNCHANGED <<storeVars, now, concVars, sconcVars, recordFile>>

(* handleLogout, lines 210-216, with the Destroy it calls, which answers   *)
(* with a cookie that has expired.                                        *)
handleLogout(cookie) ==
    /\ sessions' = IF cookie.present THEN Del(sessions, cookie.value) ELSE sessions
    /\ resp' = Response(302, <<"/login", "Set-Cookie">>)
    /\ UNCHANGED <<storeVars, now, nextID, slast, concVars, sconcVars, recordFile>>

(* The forms of the administration: a target, a short code (of the form on  *)
(* creation, of the path otherwise) and a remark.                           *)
AdminForm(target, code, remark) == [target_url |-> target, short_code |-> code, remark |-> remark]

(* handleDashboard, lines 219-235 *)
handleDashboard ==
    /\ alive
    /\ last' = Result("GetAllURLs", "", "nil")
    /\ resp' = Response(200, <<"dashboard.html">>)
    /\ UNCHANGED <<cache, isDirty, lastBackup, file, backups, now, tickTime, alive,
                   ioFailed, faults, quiet, sessVars, concVars, sconcVars, recordFile>>

(* handleCreateURL, lines 266-324 *)
handleCreateURL(form) ==
    IF form.target_url = ""
    THEN /\ resp' = Response(200, <<"url_form.html", "error">>)
         /\ UNCHANGED <<storeVars, now, sessVars, concVars, sconcVars, recordFile>>
    ELSE \E code \in IF form.short_code = "" THEN {"g"} ELSE {form.short_code} :
           /\ CreateURL(URLRecord(code, form.target_url, form.remark, 0))
           /\ resp' = IF last'.err = "nil"
                      THEN Response(302, <<"/admin">>)
                      ELSE Response(200, <<"url_form.html", "error">>)
           /\ UNCHANGED recordFile

(* handleUpdateURL, lines 354-407: the code is the path parameter. *)
handleUpdateURL(form) ==
    IF form.target_url = ""
    THEN /\ resp' = Response(200, <<"url_form.html", "error">>)
         /\ UNCHANGED <<storeVars, now, sessVars, concVars, sconcVars, recordFile>>
    ELSE /\ UpdateURL(URLRecord(form.short_code, form.target_url, form.remark, 0))
         /\ resp' = IF last'.err = "nil"
                    THEN Response(302, <<"/admin">>)
                    ELSE Response(200, <<"url_form.html", "error">>)
         /\ UNCHANGED recordFile

(* handleDeleteURL, lines 410-425 *)
handleDeleteURL(form) ==
    /\ DeleteURL(form.short_code)
    /\ resp' = IF last'.err = "nil" THEN Response(302, <<"/admin">>) ELSE Response(400, <<>>)
    /\ UNCHANGED recordFile

(* The protected routes of ServeHTTP, lines 76-91, and the requests the     *)
(* model sends to them.                                                     *)
AdminRequests ==
    {[route |-> "dashboard", form |-> AdminForm("", "", "")],
     [route |-> "create", form |-> AdminForm("u1", "a", "")],
     [route |-> "update", form |-> AdminForm("u1", "a", "")],
     [route |-> "delete", form |-> AdminForm("", "a", "")]}

(* The handler ServeHTTP passes to withAuth for a request. *)
AdminHandler(request) ==
    CASE request.route = "dashboard" -> handleDashboard
      [] request.route = "create" -> handleCreateURL(request.form)
      [] request.route = "update" -> handleUpdateURL(request.form)
      [] request.route = "delete" -> handleDeleteURL(request.form)

(* withAuth that looks the session up in the table without asking Get      *)
(* whether it has expired.                                                 *)
withAuthNoExpiry(cookie, request) ==
    IF cookie.present /\ cookie.value \in DOMAIN sessions
        /\ Username(sessions[cookie.value]) # ""
    THEN AdminHandler(request)
    ELSE /\ slast' = SResult("Get", cookie, GetErr(cookie), "", FALSE)
         /\ resp' = Response(302, <<"/login">>)
         /\ UNCHANGED <<storeVars, now, sessions, nextID, concVars, sconcVars, recordFile>>

(* withAuth, lines 100-120, around the handler of a protected route: the    *)
(* Get it calls (which evicts a session it reports expired), the test of    *)
(* the username, and the handler.                                           *)
withAuth(cookie, request) ==
    IF GetErr(cookie) # "nil"
    THEN /\ sessions' = IF GetErr(cookie) = "Expired"
                        THEN Del(sessions, cookie.value) ELSE sessions
         /\ slast' = SResult("Get", cookie, GetErr(cookie), "", FALSE)
         /\ resp' = Response(302, <<"/login">>)
         /\ UNCHANGED <<storeVars, now, nextID, concVars, sconcVars, recordFile>>
    ELSE IF Username(sessions[cookie.value]) = ""
    THEN /\ resp' = Response(302, <<"/login">>)
         /\ UNCHANGED <<storeVars, now, sessVars, concVars, sconcVars, recordFile>>
    ELSE AdminHandler(request)

(* The administration: logins, logouts and requests to the protected        *)
(* routes, one after another, with the clock and the reaper. The rewrites   *)
(* of the file succeed in these runs.                                       *)
NextAdmin ==
    \/ Tick
    \/ \E cookie \in IssuedCookies, form \in LoginForms : handleLogin(cookie, form)
    \/ \E cookie \in IssuedCookies : handleLogout(cookie)
    \/ \E cookie \in IssuedCookies, request \in AdminRequests :
          withAuth(cookie, request) /\ faults' = faults
    \/ GC

SpecAdmin == Init /\ [][NextAdmin]_vars

(* Records with and without a target, for calls made on the store itself, *)
(* and the forms of the administration with and without one.              *)
TargetRequests == {URLRecord("a", t, "", 0) : t \in {"", "u1"}}
TargetForms ==
    {[route |-> r, form |-> AdminForm(t, "a", "")] : r \in {"create", "update"}, t \in {"", "u1"}}

(* Creations and updates by every way that leads to the store: the API,    *)
(* the handlers of the administration behind withAuth, and CreateURL and   *)
(* UpdateURL called on the store.                                          *)
NextTarget ==
    \/ Tick
    \/ \E request \in APIRequests : APIServeHTTP(request, TRUE)
    \/ \E request \in TargetForms : AdminHandler(request)
    \/ \E record \in TargetRequests : CreateURL(record) /\ UNCHANGED httpVars
    \/ \E record \in TargetRequests : UpdateURL(record) /\ UNCHANGED httpVars

SpecTarget == Init /\ [][NextTarget]_vars

----------------------------------------------------------------------------
(* Claims about the record store *)

(* The short codes of the records in the file, in file order. *)
FileCodes == [i \in DOMAIN file.recs |-> file.recs[i].short_code]

(* C1: the store holds at most one record per shortCode (no two records of  *)
(* the cache carry the same ShortCode, no two entries of the file the same  *)
(* short_code); a CreateURL whose shortCode is present fails with Conflict; *)
(* a code leaves the cache only by DeleteURL, so a CreateURL succeeds only  *)
(* for a code that was never created or was deleted since.                  *)
C1_OnePerCode ==
    /\ \A k1, k2 \in DOMAIN cache : cache[k1].ShortCode = cache[k2].ShortCode => k1 = k2
    /\ \A i, j \in DOMAIN FileCodes : FileCodes[i] = FileCodes[j] => i = j

C1_Uniqueness ==
    /\ []C1_OnePerCode
    /\ [][\A record \in Requests :
            (record.ShortCode \in DOMAIN cache /\ CreateURL(record))
                => (last'.err = "Conflict" /\ cache' = cache)]_vars
    /\ [][\A code \in DOMAIN cache :
            code \notin DOMAIN cache' => last' = Result("DeleteURL", code, last'.err)]_vars

C1_Witness ==
    /\ last = Result("CreateURL", "a", "Conflict")
    /\ "a" \in DOMAIN cache
    /\ Len(file.recs) = 2

(* C2: a CreateURL that fails with Conflict, and an UpdateURL or DeleteURL  *)
(* that fails with NotFound, leaves the cache, the file and the dirty flag  *)
(* as they were; UpdateURL on an absent code does not create the record.    *)
C2_RejectedIsNoOp ==
    /\ [][\A record \in Requests :
            (last' = Result("CreateURL", record.ShortCode, "Conflict") /\ CreateURL(record))
                => UNCHANGED <<cache, file, isDirty>>]_vars
    /\ [][\A record \in Requests :
            (record.ShortCode \notin DOMAIN cache /\ last'.op = "UpdateURL" /\ UpdateURL(record))
                => (last'.err = "NotFound" /\ UNCHANGED <<cache, file, isDirty>>)]_vars
    /\ [][\A code \in Codes :
            (last' = Result("DeleteURL", code, "NotFound") /\ DeleteURL(code))
                => UNCHANGED <<cache, file, isDirty>>]_vars

C2_Witness ==
    /\ last = Result("UpdateURL", BadUTF8, "NotFound")
    /\ BadUTF8 \notin DOMAIN cache
    /\ "a" \in DOMAIN cache
    /\ isDirty

(* C4: a successful UpdateURL leaves under its code the caller's target and *)
(* remark with the CreateTime the record had, whatever CreateTime the       *)
(* caller passed; and as long as a code stays in the cache the CreateTime   *)
(* GetURLByCode returns for it is the one stamped at its creation.          *)
C4_UpdateKeepsCreateTime ==
    /\ [][\A record \in Requests :
            (last' = Result("UpdateURL", record.ShortCode, "nil") /\ UpdateURL(record))
                => GetURLByCodeVal(record.ShortCode)' =
                     URLRecord(record.ShortCode, record.TargetURL, record.Remark,
                               GetURLByCodeVal(record.ShortCode).CreateTime)]_vars
    /\ [][\A code \in Codes :
            (code \in DOMAIN cache /\ code \in DOMAIN cache')
                => GetURLByCodeVal(code)'.CreateTime = GetURLByCodeVal(code).CreateTime]_vars
    /\ [][\A code \in Codes :
            (code \notin DOMAIN cache /\ code \in DOMAIN cache')
                => GetURLByCodeVal(code)'.CreateTime = now]_vars

C4_Witness ==
    /\ last = Result("UpdateURL", "a", "nil")
    /\ GetURLByCodeVal("a").TargetURL = "u2"
    /\ GetURLByCodeVal("a").CreateTime = 1
    /\ now = MaxTime

(* C5: after a DeleteURL that found its code, GetURLByCode of the code      *)
(* fails with NotFound, and so does DeleteURL, until a CreateURL of the     *)
(* code; that CreateURL does not fail with Conflict and stamps the record   *)
(* with the time of this call.                                              *)
C5_DeleteIsTerminal ==
    /\ [][\A code \in Codes :
            (last'.op = "DeleteURL" /\ last'.err # "NotFound" /\ DeleteURL(code))
                => GetURLByCodeErr(code)' = "NotFound"]_vars
    /\ [][\A code \in Codes :
            (GetURLByCodeErr(code) = "NotFound" /\ last'.op = "DeleteURL" /\ DeleteURL(code))
                => last'.err = "NotFound"]_vars
    /\ [][\A code \in Codes :
            (GetURLByCodeErr(code) = "NotFound" /\ GetURLByCodeErr(code)' # "NotFound")
                => last' = Result("CreateURL", code, last'.err)]_vars
    /\ [][\A record \in Requests :
            (GetURLByCodeErr(record.ShortCode) = "NotFound" /\ last'.op = "CreateURL" /\ CreateURL(record))
                => /\ last'.err # "Conflict"
                   /\ GetURLByCodeVal(record.ShortCode)' = [record EXCEPT !.CreateTime = now]]_vars

C5_Witness ==
    /\ last = Result("DeleteURL", "a", "nil")
    /\ GetURLByCodeErr("a") = "NotFound"
    /\ file = JSONNull
    /\ now > 0

(* C3: after calls that each returned without an I/O error, a fresh store   *)
(* constructed from the backing file holds exactly the records of the       *)
(* cache, field for field (the empty store included).                       *)
C3_RoundTrip ==
    (alive /\ ~ioFailed)
        => /\ loadFromFile(file).err = "nil"
           /\ loadFromFile(file).cache = cache

(* C9: when the ticker fires and, since its previous firing ended without   *)
(* an error (or since the store was started), no mutation took effect, the  *)
(* dirty flag is clear and the firing creates no backup file.               *)
C9_BackupIdempotent ==
    /\ [](quiet => ~isDirty)
    /\ [][(BackupTick /\ quiet) => backups' = backups]_vars

C9_Witness ==
    /\ last = Result("BackupTick", "", "clean")
    /\ quiet
    /\ DOMAIN backups = {1}
    /\ now = MaxTime

(* C6: when some goroutines have each called CreateURL with a code of its   *)
(* own on an empty store, all their calls have returned and no call is      *)
(* under way (no I/O failure), every call returned nil and the cache and    *)
(* the file both hold the records of all of them.                           *)
Returned == {p \in Clients : pc[p] = "ret"}

C6_NoLostUpdates ==
    ((\A p \in Clients : pc[p] \in {"idle", "ret"}) /\ faults = 0)
        => /\ \A p \in Returned : loc[p].err = "nil"
           /\ DOMAIN cache = {OwnCode(p) : p \in Returned}
           /\ \A p \in Returned : cache[OwnCode(p)].TargetURL = "u1"
           /\ Returned # {} => file \in EncodeCache(cache)
           /\ loadFromFile(file).cache = cache

C6_Witness ==
    /\ \A p \in Clients : pc[p] = "ret" /\ loc[p].err = "nil"
    /\ Len(file.recs) = Cardinality(Clients)
    /\ cache["a"].CreateTime > cache["b"].CreateTime

(* C7: the mutations take effect one after another: the cache is the result *)
(* of applying them in one order, each mutation returns what it returns     *)
(* when run alone at its place in that order (or the I/O error of its file  *)
(* rewrite), and each read returns the state left by the mutations that     *)
(* took effect before it, among them every mutation that had returned when  *)
(* the read was called.                                                     *)
C7_Linearizable ==
    /\ cache = acache
    /\ \A p \in Clients :
         (pc[p] \in {"unlock", "ret"} /\ loc[p].op \in Mutations)
            => \/ loc[p].err = loc[p].exp
               \/ loc[p].err = "IOFailure" /\ loc[p].exp = "nil"
    /\ \A p \in Clients :
         (pc[p] \in {"runlock", "ret"} /\ loc[p].op \in {"GetURLByCode", "GetAllURLs"})
            => loc[p].err = loc[p].exp /\ loc[p].out = loc[p].expOut

C7_Witness ==
    /\ pc["p1"] = "ret" /\ loc["p1"].op = "CreateURL" /\ loc["p1"].err = "Conflict"
    /\ pc["p2"] = "ret" /\ loc["p2"].op = "CreateURL" /\ loc["p2"].err = "nil"
    /\ loc["p1"].rec.ShortCode = loc["p2"].rec.ShortCode

(* C8: a goroutine reads the cache or the dirty flag only while it holds    *)
(* the mutex shared, and mutates or copies the file only while it holds it  *)
(* exclusively; no writer is in its critical section together with another  *)
(* writer or a reader; GetAllURLs returns the records of the cache as they  *)
(* were when it took the lock, a state between two mutations.               *)
WriteCS == {"check", "store", "create", "range", "encode", "unlock", "bk_backup", "bk_unlock"}
ReadCS == {"lookup", "iterate", "runlock", "bk_read"}

C8_LockDiscipline ==
    /\ \A p \in Procs : pc[p] \in WriteCS => writer = p
    /\ \A p \in Procs : pc[p] \in ReadCS => p \in readers
    /\ \A p, q \in Procs : (p # q /\ pc[p] \in WriteCS) => pc[q] \notin WriteCS \cup ReadCS
    /\ \A p \in Clients :
         (pc[p] \in {"runlock", "ret"} /\ loc[p].op = "GetAllURLs")
            => loc[p].out = loc[p].expOut

C8_Witness ==
    /\ pc["p1"] = "encode"
    /\ pc["p2"] = "rlock"
    /\ pc[Scheduler] = "bk_lock"
    /\ writer = "p1"

----------------------------------------------------------------------------
(* Claims about the session manager *)

(* C10: for a stored session, Get returns it exactly when now < expiresAt   *)
(* and fails with Expired when now >= expiresAt, the instant                *)
(* now = expiresAt included; Start reuses it under the same condition.      *)
C10_ValidIffBeforeExpiry ==
    [][\A cookie \in Cookies :
        (cookie.present /\ cookie.value \in DOMAIN sessions)
            => /\ Get(cookie) =>
                    IF now < sessions[cookie.value].ExpiresAt
                    THEN slast'.err = "nil" /\ slast'.id = cookie.value
                    ELSE slast'.err = "Expired"
               /\ Start(cookie) =>
                    (slast'.id = cookie.value <=> now < sessions[cookie.value].ExpiresAt)]_vars

(* C11 as stated: Get fails with NotExist when the request carries no token *)
(* or an unknown one, and leaves the session table unchanged.               *)
C11_GetNotExist ==
    [][\A cookie \in Cookies :
        ((~cookie.present \/ cookie.value \notin DOMAIN sessions) /\ Get(cookie))
            => (slast'.err = "NotExist" /\ sessions' = sessions)]_vars

(* C11, amended: Get fails with the error of the cookie lookup when the     *)
(* request carries no cookie and with NotExist when the token is unknown,   *)
(* leaving the session table unchanged; Get on a session past its expiry    *)
(* (now after expiresAt) fails with Expired and removes that session and no *)
(* other, so the next Get with the token fails with NotExist: an id that    *)
(* left the table never returns to it.                                      *)
C11_GetErrors ==
    /\ [][\A cookie \in Cookies :
            (~cookie.present /\ slast'.op = "Get" /\ Get(cookie))
                => (slast'.err = "NoCookie" /\ sessions' = sessions)]_vars
    /\ [][\A cookie \in Cookies :
            (cookie.present /\ cookie.value \notin DOMAIN sessions
                /\ slast'.op = "Get" /\ Get(cookie))
                => (slast'.err = "NotExist" /\ sessions' = sessions)]_vars
    /\ [][\A cookie \in Cookies :
            (cookie.present /\ cookie.value \in DOMAIN sessions
                /\ now > sessions[cookie.value].ExpiresAt
                /\ slast'.op = "Get" /\ Get(cookie))
                => /\ slast'.err = "Expired"
                   /\ sessions' = Del(sessions, cookie.value)
                   /\ cookie.value \notin DOMAIN sessions'
                   /\ GetErr(cookie)' = "NotExist"]_vars
    /\ [][\A n \in 1..MaxSessions :
            (n < nextID /\ generateSessionID(n) \notin DOMAIN sessions)
                => generateSessionID(n) \notin DOMAIN sessions']_vars

C11_Witness ==
    /\ slast = SResult("Get", Cookie(generateSessionID(1)), "Expired", "", FALSE)
    /\ generateSessionID(1) \notin DOMAIN sessions
    /\ generateSessionID(2) \in DOMAIN sessions
    /\ now > MaxLifetime

(* The request carries the token of a stored session that has not expired. *)
Valid(cookie) ==
    /\ cookie.present
    /\ cookie.value \in DOMAIN sessions
    /\ now < sessions[cookie.value].ExpiresAt

(* C13: a Start whose request carries the token of a stored, non-expired    *)
(* session returns that session (same id, values and creation time), adds   *)
(* no session and sets no cookie; every other Start (no token, empty or     *)
(* unknown token, expired session) stores exactly one new session, under an *)
(* id that is not in the table, with expiresAt = now + maxLifetime and      *)
(* empty values, sets the cookie to that id, and a Get with the new token   *)
(* then succeeds.                                                           *)
C13_StartReusesValid ==
    /\ [][\A cookie \in Cookies :
            (Valid(cookie) /\ slast'.op = "Start" /\ Start(cookie))
                => /\ slast' = SResult("Start", cookie, "nil", cookie.value, FALSE)
                   /\ DOMAIN sessions' = DOMAIN sessions
                   /\ sessions'[cookie.value].ID = cookie.value
                   /\ sessions'[cookie.value].Values = sessions[cookie.value].Values
                   /\ sessions'[cookie.value].CreatedAt = sessions[cookie.value].CreatedAt
                   /\ \A id \in DOMAIN sessions \ {cookie.value} :
                        sessions'[id] = sessions[id]]_vars
    /\ [][\A cookie \in Cookies :
            (~Valid(cookie) /\ slast'.op = "Start" /\ Start(cookie))
                => /\ slast'.err = "nil" /\ slast'.setCookie
                   /\ slast'.id \notin DOMAIN sessions
                   /\ sessions' = Put(sessions, slast'.id,
                                      Session(slast'.id, EmptyMap, now, now + MaxLifetime))
                   /\ \E n \in 1..MaxSessions :
                        /\ slast'.id = generateSessionID(n)
                        /\ GetErr(Cookie(generateSessionID(n)))' = "nil"]_vars

C13_Witness ==
    /\ slast = SResult("Start", Cookie(generateSessionID(1)), "nil",
                       generateSessionID(2), TRUE)
    /\ generateSessionID(1) \in DOMAIN sessions
    /\ now >= sessions[generateSessionID(1)].ExpiresAt
    /\ sessions[generateSessionID(2)].ExpiresAt = now + MaxLifetime

(* C14: a Get that succeeds changes no session: the session it returns and  *)
(* every other one keep their expiresAt and their other fields; a Get that  *)
(* fails changes no session that stays stored; and a stored session's       *)
(* expiresAt moves only in a Start that returns that session. So however    *)
(* often Get is called, expiresAt stays where the last Start put it.        *)
C14_GetNeverRenews ==
    /\ [][\A cookie \in Cookies :
            (slast' = SResult("Get", cookie, "nil", cookie.value, FALSE) /\ Get(cookie))
                => sessions' = sessions]_vars
    /\ [][\A cookie \in Cookies :
            (slast'.op = "Get" /\ Get(cookie))
                => \A id \in DOMAIN sessions' :
                     id \in DOMAIN sessions /\ sessions'[id] = sessions[id]]_vars
    /\ [][\A id \in DOMAIN sessions \cap DOMAIN sessions' :
            sessions'[id].ExpiresAt # sessions[id].ExpiresAt
                => slast' = SResult("Start", Cookie(id), "nil", id, FALSE)]_vars

C14_Witness ==
    /\ slast = SResult("Get", Cookie(generateSessionID(1)), "nil",
                       generateSessionID(1), FALSE)
    /\ generateSessionID(1) \in DOMAIN sessions
    /\ sessions[generateSessionID(1)].CreatedAt = 1
    /\ sessions[generateSessionID(1)].ExpiresAt = 1 + MaxLifetime
    /\ now = 1 + MaxLifetime - 1

(* C15: after Destroy with token T no session is stored under T and Get     *)
(* with T fails with NotExist; Destroy raises no error; Destroy with a      *)
(* token under which nothing is stored (destroyed before, or never issued)  *)
(* leaves the session table unchanged; and Destroy leaves every session     *)
(* stored under another token as it was.                                    *)
C15_DestroyIdempotent ==
    /\ [][\A cookie \in Cookies :
            (cookie.present /\ slast'.op = "Destroy" /\ Destroy(cookie))
                => /\ slast'.err = "nil"
                   /\ cookie.value \notin DOMAIN sessions'
                   /\ GetErr(cookie)' = "NotExist"
                   /\ \A id \in DOMAIN sessions \ {cookie.value} :
                        id \in DOMAIN sessions' /\ sessions'[id] = sessions[id]]_vars
    /\ [][\A cookie \in Cookies :
            ((~cookie.present \/ cookie.value \notin DOMAIN sessions)
                /\ slast'.op = "Destroy" /\ Destroy(cookie))
                => (slast'.err = "nil" /\ sessions' = sessions)]_vars

C15_Witness ==
    /\ slast = SResult("Destroy", Cookie(generateSessionID(1)), "nil", "", TRUE)
    /\ generateSessionID(1) \notin DOMAIN sessions
    /\ generateSessionID(2) \in DOMAIN sessions
    /\ now < sessions[generateSessionID(2)].ExpiresAt

(* C16: right after GC has run at time now, no stored session has           *)
(* now >= expiresAt, and every session that was stored with now < expiresAt *)
(* is still stored with its fields unchanged.                               *)
C16_GCEvictsExpired ==
    [][(slast'.op = "GC" /\ GC)
        => /\ \A id \in DOMAIN sessions' : now < sessions'[id].ExpiresAt
           /\ \A id \in DOMAIN sessions :
                now < sessions[id].ExpiresAt
                    => (id \in DOMAIN sessions' /\ sessions'[id] = sessions[id])]_vars

----------------------------------------------------------------------------
(* Claims about the HTTP handlers *)

(* The short codes of the records appended by successful POST /shorten. *)
StoredCodes == {recordFile[i].ShortCode : i \in DOMAIN recordFile}

(* C17: a POST /shorten (with a target) whose short_code is the short_code  *)
(* of a record stored by an earlier successful POST /shorten is answered    *)
(* with 409 Conflict and appends no second record for the code (the answer *)
(* 500 of a failed write apart); the same for the POST of the API over the  *)
(* record store.                                                            *)
C17_ShortenConflict ==
    /\ [][\A req \in ShortenRequests :
            (req.TargetURL # <<>> /\ req.ShortCode \in StoredCodes
                /\ resp'.status # 500 /\ ShortenHandler(req))
                => (resp'.status = 409 /\ recordFile' = recordFile)]_vars
    /\ [][\A request \in APIRequests :
            (request.TargetURL # "" /\ request.ShortCode \in DOMAIN cache
                /\ APIServeHTTP(request, TRUE))
                => (resp'.status = 409 /\ cache' = cache /\ file' = file)]_vars

(* C18: after any sequence of create, update and delete operations,         *)
(* GET /<code> redirects (302) to the targetURL of the record stored under  *)
(* the code and answers 404 when the path is empty or no record is stored   *)
(* under the code: on the server of the record store, with the TargetURL of *)
(* the record the cache holds under the code; on the server of the records  *)
(* file, with the target_url of a record appended under the code.           *)
C18_RedirectFollowsStore ==
    /\ [][\A path \in Paths :
            RedirectServeHTTP(path)
                => resp' = IF TrimPrefix(path) # "" /\ TrimPrefix(path) \in DOMAIN cache
                           THEN Response(302, <<cache[TrimPrefix(path)].TargetURL>>)
                           ELSE Response(404, <<>>)]_vars
    /\ [][\A path \in LegacyPaths :
            RedirectHandler(path)
                => IF Tail(path) # <<>> /\ Tail(path) \in StoredCodes
                   THEN /\ resp'.status = 302
                        /\ resp'.body \in
                              {recordFile[i].TargetURL :
                                 i \in {k \in DOMAIN recordFile :
                                          recordFile[k].ShortCode = Tail(path)}}
                   ELSE resp' = Response(404, <<>>)]_vars

----------------------------------------------------------------------------
(* Claims about the session manager under concurrent callers *)

(* C19: a goroutine about to write the session table or a stored session's  *)
(* expiresAt (Start's renewal and store, Destroy's and Get's delete, GC's   *)
(* range) holds Manager.mutex exclusively; a goroutine of Get about to read *)
(* the table or a session's expiresAt holds it at least shared; so Start's  *)
(* renewal of a session is never pending while Get or GC is about to read   *)
(* the expiresAt of the same session.                                       *)
C19_SessionLockDiscipline ==
    /\ \A p \in SessionProcs :
         spc[p] \in {"st_renew", "st_store", "d_delete", "g_delete", "gc_range"}
             => swriter = p
    /\ \A p \in SessionProcs :
         (spc[p] = "g_lookup" \/ (spc[p] = "g_check" /\ sloc[p].exists))
             => (p \in sreaders \/ swriter = p)
    /\ \A p, q \in SessionProcs :
         (spc[p] = "st_renew" /\ q # p)
             => /\ ~(spc[q] = "g_check" /\ sloc[q].exists /\ sloc[q].id = sloc[p].id)
                /\ ~(spc[q] = "gc_range"
                        /\ sloc[p].id \in DOMAIN sessions \ sloc[q].visited)

(* C12: a Start called with a session's token less than maxLifetime after   *)
(* the Start before it finds the session valid (line 66), and the session   *)
(* it found valid is not evicted by GC or Get: it is still stored when      *)
(* Start renews it, unless a Destroy removed it, and the renewal leaves it  *)
(* stored with expiresAt = now + maxLifetime.                               *)
C12_SlidingRenewal ==
    /\ [][(spc[Starter] = "st_check" /\ sloc[Starter].exists
            /\ now < objects[sloc[Starter].id].ExpiresAt /\ StartCheck(Starter))
                => spc'[Starter] = "st_renew"]_vars
    /\ [][\A id \in DOMAIN sessions :
            (spc[Starter] = "st_renew" /\ sloc[Starter].id = id
                /\ id \notin DOMAIN sessions')
                => spc[Getter] = "d_delete"]_vars
    /\ [][(spc[Starter] = "st_renew" /\ sloc[Starter].id \in DOMAIN sessions
            /\ StartRenew(Starter))
                => /\ sloc[Starter].id \in DOMAIN sessions'
                   /\ sessions'[sloc[Starter].id].ExpiresAt = now + MaxLifetime]_vars

(* C20: the first call after a session's expiry that carries its token,     *)
(* Get or Start, removes the session from the table: once the call has      *)
(* returned, the expired session is not stored.                             *)
C20_LazyRemoval ==
    [][\A cookie \in Cookies :
        (cookie.present /\ cookie.value \in DOMAIN sessions
            /\ now > sessions[cookie.value].ExpiresAt
            /\ slast'.cookie = cookie
            /\ (Get(cookie) \/ Start(cookie)))
            => cookie.value \notin DOMAIN sessions']_vars

----------------------------------------------------------------------------
(* Claims about failures of the file rewrite and about backups *)

(* C21: when the file rewrite of CreateURL, UpdateURL or DeleteURL fails,   *)
(* the call returns the I/O error after that one attempt, the cache keeps   *)
(* the mutation (GetURLByCode reflects it) and the dirty flag is set; the   *)
(* file is as it was, or truncated, or partly written.                      *)
C21_IOFailureKeepsMutation ==
    /\ [][\A record \in BackupRequests :
            (last' = Result("CreateURL", record.ShortCode, "IOFailure") /\ CreateURL(record))
                => /\ cache' = SeqApply("CreateURL", record, cache, now)
                   /\ GetURLByCodeErr(record.ShortCode)' = "nil"
                   /\ GetURLByCodeVal(record.ShortCode)' = [record EXCEPT !.CreateTime = now]
                   /\ isDirty'
                   /\ faults' = faults + 1
                   /\ file' \in {file, Truncated, Partial}]_vars
    /\ [][\A record \in BackupRequests :
            (last' = Result("UpdateURL", record.ShortCode, "IOFailure") /\ UpdateURL(record))
                => /\ cache' = SeqApply("UpdateURL", record, cache, now)
                   /\ GetURLByCodeVal(record.ShortCode)' =
                        [record EXCEPT !.CreateTime = cache[record.ShortCode].CreateTime]
                   /\ isDirty'
                   /\ faults' = faults + 1
                   /\ file' \in {file, Truncated, Partial}]_vars
    /\ [][(last' = Result("DeleteURL", "a", "IOFailure") /\ DeleteURL("a"))
                => /\ cache' = Del(cache, "a")
                   /\ GetURLByCodeErr("a")' = "NotFound"
                   /\ isDirty'
                   /\ faults' = faults + 1
                   /\ file' \in {file, Truncated, Partial}]_vars

(* A DeleteURL failed on a clean store: the cache is empty, the flag is     *)
(* set, and the file still holds the record.                                *)
C21_Witness ==
    /\ last = Result("DeleteURL", "a", "IOFailure")
    /\ cache = EmptyMap
    /\ isDirty
    /\ file.kind = "array"
    /\ backups # EmptyMap

(* C22: at every instant, the middle of a mutation's file rewrite           *)
(* included, the records file is complete: never empty or partly written;   *)
(* and while no rewrite is under way and none has failed it holds exactly   *)
(* the records of the cache.                                                *)
C22_FileAlwaysComplete ==
    /\ file.kind \in {"absent", "null", "array"}
    /\ ((\A p \in Clients : pc[p] \notin {"create", "range", "encode"}) /\ ~ioFailed)
            => (loadFromFile(file).err = "nil" /\ loadFromFile(file).cache = cache)

(* C23: a backup never captures an intermediate state. Every backup file    *)
(* the scheduler creates is a copy of the records file as it is at the      *)
(* copy; during the copy the scheduler holds the lock and no mutation is    *)
(* between its cache update and the end of its file rewrite; and when the   *)
(* backup clears the dirty flag the copied file holds every mutation made   *)
(* so far (it decodes to the cache), while each later cache update sets     *)
(* the flag again.                                                          *)
C23_BackupNotIntermediate ==
    /\ [][\A t \in DOMAIN backups' :
            (t \notin DOMAIN backups \/ backups'[t] # backups[t])
                => backups'[t] = file]_vars
    /\ [](pc[Scheduler] = "bk_backup"
            => /\ writer = Scheduler
               /\ \A p \in ConcClients : pc[p] \notin {"store", "create", "range", "encode"})
    /\ [][(isDirty /\ ~isDirty')
            => /\ pc[Scheduler] = "bk_backup"
               /\ now \in DOMAIN backups' /\ backups'[now] = file
               /\ loadFromFile(file).cache = cache]_vars
    /\ [][cache' # cache => isDirty']_vars

(* C24: every change is eventually backed up. The dirty flag is cleared by  *)
(* a backup copy that succeeds and by nothing else, a mutation sets it,     *)
(* and, the ticker firing for ever and the copy succeeding in the end,      *)
(* once a mutation has succeeded a backup file made after it, holding the   *)
(* complete records of that moment or of a later one, eventually exists.    *)
C24_EventuallyBackedUp ==
    /\ [][(isDirty /\ ~isDirty') => last' = Result("BackupTick", "", "nil")]_vars
    /\ [][(last'.op \in Mutations /\ last'.err = "nil" /\ last' # last) => isDirty']_vars
    /\ \A t \in 0..MaxTime :
         (last.op \in Mutations /\ last.err = "nil" /\ now = t)
            ~> (\E b \in DOMAIN backups :
                   b >= t /\ backups[b].kind \in {"null", "array"})

(* C25: with no Destroy of the token, the session Start returns is, at the  *)
(* moment Start returns, stored in the session table under its id: the      *)
(* table holds the very Session value the caller got, so what the caller    *)
(* writes into it is what a later Get with the token finds.                 *)
C25_HandedOutIsStored ==
    [][(slast'.op = "Start" /\ (StartRenew(Starter) \/ StartStore(Starter)))
        => /\ slast'.err = "nil"
           /\ slast'.id \in DOMAIN sessions'
           /\ sessions'[slast'.id] = objects'[slast'.id]]_vars

----------------------------------------------------------------------------
(* Claims about the reaper *)

(* C26: with the reaper running for ever, a stored session whose expiresAt  *)
(* is not moved again (no Start renews it) eventually leaves the table; and *)
(* GC removes no session before its expiresAt: the sessions it removes are  *)
(* those with now after expiresAt, and it changes no session it keeps.      *)
C26_ReaperBoundsAbandoned ==
    /\ \A n \in 1..MaxSessions : \A e \in 0..(MaxTime + MaxLifetime + 1) :
         (generateSessionID(n) \in DOMAIN sessions
            /\ sessions[generateSessionID(n)].ExpiresAt = e)
           ~> (\/ generateSessionID(n) \notin DOMAIN sessions
               \/ sessions[generateSessionID(n)].ExpiresAt # e)
    /\ [][(slast'.op = "GC" /\ GC)
            => \A id \in DOMAIN sessions :
                 /\ id \notin DOMAIN sessions' => ~(now < sessions[id].ExpiresAt)
                 /\ id \in DOMAIN sessions' => sessions'[id] = sessions[id]]_vars

(* The reaper removed an abandoned session: session 1, created at instant  *)
(* 1 and never renewed, is gone after a GC at an instant past its          *)
(* expiresAt, while session 2 is still stored.                             *)
C26_Witness ==
    /\ slast = SResult("GC", NoCookie, "nil", "", FALSE)
    /\ nextID > 2
    /\ generateSessionID(1) \notin DOMAIN sessions
    /\ generateSessionID(2) \in DOMAIN sessions
    /\ now > MaxLifetime

----------------------------------------------------------------------------
(* Claims about the fields of a record *)

(* C27: the target of a record is required: whatever creations and updates *)
(* were made, on the store itself or through the API and the               *)
(* administration, no record of the store has an empty target; and a       *)
(* creation or an update with an empty target returns a validation error   *)
(* and leaves the cache and the file as they were.                         *)
C27_TargetRequired ==
    /\ [](\A k \in DOMAIN cache : cache[k].TargetURL # "")
    /\ [][\A record \in TargetRequests :
            (record.TargetURL = "" /\ last'.op \in {"CreateURL", "UpdateURL"}
                /\ (CreateURL(record) \/ UpdateURL(record)))
            => last'.err = "ValidationFailure" /\ UNCHANGED <<cache, file>>]_vars
    /\ [][\A request \in APIRequests :
            (request.TargetURL = "" /\ APIServeHTTP(request, TRUE))
            => resp'.status = 400 /\ UNCHANGED <<cache, file>>]_vars
    /\ [][\A request \in TargetForms :
            (request.form.target_url = "" /\ AdminHandler(request))
            => resp' = Response(200, <<"url_form.html", "error">>)
               /\ UNCHANGED <<cache, file>>]_vars

(* C29: the short code is the key and does not change: every record of    *)
(* the cache is stored under its own ShortCode, whether it was put there   *)
(* by CreateURL, by UpdateURL or by loadFromFile at a start of the         *)
(* process; and an UpdateURL leaves the keys of the cache, and the         *)
(* ShortCode of the record under each key, as they were.                   *)
C29_ShortCodeIsKey ==
    /\ [](\A k \in DOMAIN cache : cache[k].ShortCode = k)
    /\ [][\A record \in RestartRequests :
            (last'.op = "UpdateURL" /\ UpdateURL(record))
            => /\ DOMAIN cache' = DOMAIN cache
               /\ \A k \in DOMAIN cache : cache'[k].ShortCode = cache[k].ShortCode]_vars

(* Two records, one of them loaded from the file at a restart (its code    *)
(* was rewritten by the encoding), and the other updated since.            *)
C29_Witness ==
    /\ last = Result("UpdateURL", "a", "nil")
    /\ DOMAIN cache = {"a", Replacement}
    /\ cache["a"].TargetURL = "u2"

----------------------------------------------------------------------------
(* Claims about the administration *)

(* The session of token id is gone or past its expiry. *)
LoggedOutOrExpired(id) ==
    id \notin DOMAIN sessions \/ After(now, sessions[id].ExpiresAt)

(* withAuth turns the request with this cookie away: Get does not accept   *)
(* its token, or the session has no username of an account.                *)
NoLiveLogin(cookie) ==
    GetErr(cookie) # "nil" \/ Username(sessions[cookie.value]) \notin Users

C28_LogoutWitness ==
    /\ nextID = 2
    /\ cache # EmptyMap
    /\ now < MaxLifetime
    /\ slast = SResult("Get", Cookie(generateSessionID(1)), "NotExist", "", FALSE)
    /\ resp = Response(302, <<"/login">>)

====
